---- MODULE Spec2Model ----
(***************************************************************************)
(* Model of the response-processing core of CWM-AI: the chat:stream turn   *)
(* handler with its stop-correct-resume loop, continuation loop and        *)
(* auto-fix loop, the chat:cancel handler, and the FastMonitor and         *)
(* StreamingMonitor objects.                                               *)
(*                                                                         *)
(* Text is a sequence of tokens.  A token stands for a span of characters  *)
(* whose only relevant feature is which detector patterns it contains:     *)
(*   "txt"      plain prose                                                *)
(*   "fence"    ```ts followed by a newline                                *)
(*   "fenceSp"  ``` followed by a blank and a newline                      *)
(*   "tool"     apply_patch                                                *)
(*   "wfile"    write_file                                                 *)
(*   "open"     <dyad-write path="src/a.ts">                               *)
(*   "openMd"   <dyad-write path="docs/a.md">                              *)
(*   "openNote" <dyad-write path="notes.md">                               *)
(*   "delete"   <dyad-delete path="b.ts" />                                *)
(*   "close"    </dyad-write>                                              *)
(*   "dep"      <dyad-add-dependency packages="x">                         *)
(*   "rename"   <dyad-rename from="b.ts" to="c.ts" />                      *)
(*   "summary"  a line that starts with Summary:                           *)
(*   "report"   a <dyad-problem-report> block ("report2": one listing      *)
(*              other problems)                                            *)
(*   "cancelled" the [Response cancelled by user] annotation               *)
(***************************************************************************)
EXTENDS Integers, Sequences, FiniteSets, TLC

\* ---------------------------------------------------------------- bounds
\* longest streamed response, in tokens
MaxResp == 2
\* chat:cancel invocations during one behaviour
MaxCancels == 1
\* model invocations that fail during one turn
MaxFailures == 1
\* checkChunk / analyzeChunk calls on one monitor instance
MaxCalls == 3
\* reset() calls on one monitor instance
MaxResets == 1
\* WorkflowManager calls on one conversation
MaxOps == 6
\* reasoning-delta events of one stream, and the pieces of text in one event
MaxDeltas == 2
MaxPieces == 4
\* tokens of a validated response, of a parsed response, and of a reply of
\* the router model
MaxText == 3
MaxParsed == 5
MaxReply == 5

\* ------------------------------------------------------ program constants
DEFAULT_MAX_CORRECTION_ATTEMPTS == 2
MAX_CONTINUATION_ATTEMPTS == 2
MAX_AUTO_FIX_ATTEMPTS == 2
DB_SAVE_INTERVAL_MS == 150

None == "none"

\* ------------------------------------------------------------- text helpers
Has(text, tok) == \E i \in 1..Len(text) : text[i] = tok

HasAny(text, toks) == \E i \in 1..Len(text) : text[i] \in toks

WriteOpenTokens == {"open", "openMd", "openNote"}

\* /```[\w]*\s*\n/.test(text)
detectMarkdownCodeBlock(text) == HasAny(text, {"fence", "fenceSp"})

\* codexTools.some((tool) => text.includes(tool))
detectCodexCliTool(text) == HasAny(text, {"tool", "wfile"})

\* text.includes("<dyad-write")
IncludesDyadWrite(text) == HasAny(text, WriteOpenTokens)

\* text.match(/<dyad-write[^>]*path="[^"]*\.md"/)
MatchesMdWrite(text) == HasAny(text, {"openMd", "openNote"})

\* the three tag prefixes looked for in agent mode
IncludesAgentTags(text) ==
  HasAny(text, WriteOpenTokens \cup {"delete", "rename"})

\* --------------------------------------------------------------- FastMonitor
FastKinds ==
  <<"markdown_code_block", "codex_cli_tool", "planning_file_creation",
    "docs_non_markdown", "agent_dyad_tags">>

\* FastMonitor.CACHED_CORRECTIONS[kind]
CACHED_CORRECTIONS(kind) == <<"STOP", kind>>

NoViolation(detected) ==
  [hasViolation |-> FALSE, violationType |-> None, correction |-> <<>>,
   shouldAbort |-> FALSE, detected |-> detected]

Violation_unrecorded(kind, detected) ==
  [hasViolation |-> TRUE, violationType |-> kind,
   correction |-> CACHED_CORRECTIONS(kind), shouldAbort |-> TRUE,
   detected |-> detected]

\* a violation result, and the seen-set with the kind added
Violation(kind, detected) ==
  [hasViolation |-> TRUE, violationType |-> kind,
   correction |-> CACHED_CORRECTIONS(kind), shouldAbort |-> TRUE,
   detected |-> detected \cup {kind}]

\* FastMonitor.checkModeViolations; m is the monitor object
checkModeViolations(m, text) ==
  IF /\ (m.workflowStep = "planning" \/ m.mode = "planning")
     /\ IncludesDyadWrite(text)
     /\ "planning_file_creation" \notin m.detected
  THEN Violation("planning_file_creation", m.detected)
  ELSE IF /\ (m.workflowStep = "docs" \/ m.mode = "docs")
          /\ IncludesDyadWrite(text) /\ ~MatchesMdWrite(text)
          /\ "docs_non_markdown" \notin m.detected
  THEN Violation("docs_non_markdown", m.detected)
  ELSE IF /\ m.mode = "agent"
          /\ IncludesAgentTags(text)
          /\ "agent_dyad_tags" \notin m.detected
  THEN Violation("agent_dyad_tags", m.detected)
  ELSE NoViolation(m.detected)

checkChunk_toolFirst(m, text) ==
  IF detectCodexCliTool(text) /\ "codex_cli_tool" \notin m.detected
  THEN Violation("codex_cli_tool", m.detected)
  ELSE IF detectMarkdownCodeBlock(text)
          /\ "markdown_code_block" \notin m.detected
  THEN Violation("markdown_code_block", m.detected)
  ELSE checkModeViolations(m, text)

\* FastMonitor.checkChunk; the result carries the updated seen-set
checkChunk(m, text) ==
  IF detectMarkdownCodeBlock(text) /\ "markdown_code_block" \notin m.detected
  THEN Violation("markdown_code_block", m.detected)
  ELSE IF detectCodexCliTool(text) /\ "codex_cli_tool" \notin m.detected
  THEN Violation("codex_cli_tool", m.detected)
  ELSE checkModeViolations(m, text)

\* new FastMonitor({mode, workflowStep})
NewFastMonitor(mode, step) ==
  [class |-> "FastMonitor", mode |-> mode, workflowStep |-> step,
   detected |-> {}, accumulatedResponse |-> <<>>, hasCallback |-> FALSE]

\* FastMonitor.reset / StreamingMonitor.reset
reset(m) == [m EXCEPT !.detected = {}, !.accumulatedResponse = <<>>]

\* ---------------------------------------------------------- StreamingMonitor
StreamingKinds ==
  <<"markdown_code_block", "codex_cli_tool", "planning_mode_violation",
    "docs_mode_violation", "agent_mode_violation">>

\* StreamingMonitor.detectQuickViolations: the violation types found, in the
\* order the method pushes them
detectQuickViolations(m, text) ==
  (IF Has(text, "fence") THEN <<"markdown_code_block">> ELSE <<>>)
  \o (IF Has(text, "tool") THEN <<"codex_cli_tool">> ELSE <<>>)
  \o (IF (m.workflowStep = "planning" \/ m.mode = "planning")
         /\ IncludesDyadWrite(text)
      THEN <<"planning_mode_violation">> ELSE <<>>)
  \o (IF (m.workflowStep = "docs" \/ m.mode = "docs")
         /\ IncludesDyadWrite(text) /\ ~MatchesMdWrite(text)
      THEN <<"docs_mode_violation">> ELSE <<>>)
  \o (IF m.mode = "agent" /\ IncludesAgentTags(text)
      THEN <<"agent_mode_violation">> ELSE <<>>)

\* first entry of a violation list whose type is not in the seen-set
FirstNew(violations, detected) ==
  LET idx == {i \in 1..Len(violations) : violations[i] \notin detected}
  IN IF idx = {} THEN None
     ELSE violations[CHOOSE i \in idx : \A j \in idx : i <= j]

analyzeChunk_markedLater(m, chunk) ==
  LET acc == m.accumulatedResponse \o chunk
      kind == FirstNew(detectQuickViolations(m, acc), m.detected)
  IN [monitor |-> [m EXCEPT !.accumulatedResponse = acc],
      violationType |-> kind]

\* StreamingMonitor.analyzeChunk up to its await: the monitor after the
\* chunk was appended and the first new type marked, and that type
analyzeChunk(m, chunk) ==
  LET acc == m.accumulatedResponse \o chunk
      kind == FirstNew(detectQuickViolations(m, acc), m.detected)
  IN [monitor |-> [m EXCEPT !.accumulatedResponse = acc,
                            !.detected = IF kind = None THEN @
                                         ELSE @ \cup {kind}],
      violationType |-> kind]

generateCorrection_uncaught(kind, router) ==
  [settled |-> IF router = "fails" THEN "rejected" ELSE "resolved",
   correction |-> IF router = "text" THEN <<"FIX", kind>> ELSE <<>>]

\* StreamingMonitor.generateCorrection: how its promise settles and the
\* trimmed text it resolves with; router: the router-model call fails,
\* streams only white space, or streams a text
generateCorrection(kind, router) ==
  [settled |-> "resolved",
   correction |-> IF router = "text" THEN <<"FIX", kind>> ELSE <<>>]

\* new StreamingMonitor({routerModel, settings, appPath, mode, workflowStep})
NewStreamingMonitor(mode, step, onCorrection) ==
  [class |-> "StreamingMonitor", mode |-> mode, workflowStep |-> step,
   detected |-> {}, accumulatedResponse |-> <<>>,
   hasCallback |-> onCorrection]

NoMonitor ==
  [class |-> None, mode |-> None, workflowStep |-> None,
   detected |-> {}, accumulatedResponse |-> <<>>, hasCallback |-> FALSE]

\* ------------------------------------------------------------------ state
VARIABLES
  settings,          \* readSettings() of the turn, and the chat row
  activeStreams,     \* Map<number, AbortController>: chat id -> controller
  partialResponses,  \* Map<number, string>: chat id -> text
  ctrls,             \* the AbortController objects created so far
  turn,              \* locals of the chat:stream handler invocation
  stream,            \* the model stream the handler is consuming
  db,                \* content of the placeholder assistant message row
  sent,              \* events sent to the renderer, per channel
  hist,              \* observations used by the properties
  mon,               \* a monitor instance driven call by call
  conc,              \* concurrent chat:stream invocations
  wf,                \* workflow columns of a chat row and the calls on it
  chunks,            \* one processStreamChunks call fed reasoning events
  call               \* one call of a pure function, or the set-up of one turn

vars ==
  <<settings, activeStreams, partialResponses, ctrls, turn, stream, db,
    sent, hist, mon, conc, wf, chunks, call>>

ChatIds == {1, 2}

\* req.chatId of the modelled turn
ReqChatId == 1

ChatModes == {"build", "ask", "agent"}

\* chat.workflowStep values given to the monitor of the turn
TurnSteps == {None, "planning"}

\* tokens a text-delta of the primary model can carry; a closing tag with
\* no tag open is inert text for every detector
StreamTokens == {"fence", "open", "close"}

\* Date.now() at the first stream event of a turn
EpochMs == 1000

\* time passed between the last snapshot write and a later stream event
Delays == {0, DB_SAVE_INTERVAL_MS}

\* Date.now() at a stream event that comes d after the last snapshot write
Now(d) == IF turn.lastDbSaveAt = 0 THEN EpochMs ELSE turn.lastDbSaveAt + d

\* const MAX_CORRECTION_ATTEMPTS = settings.maxCorrectionAttempts || 2
MAX_CORRECTION_ATTEMPTS ==
  IF settings.maxCorrectionAttempts = 0
  THEN DEFAULT_MAX_CORRECTION_ATTEMPTS
  ELSE settings.maxCorrectionAttempts

\* new AbortController()
NewAbortController ==
  [aborted |-> FALSE, correctionNeeded |-> <<>>, violationType |-> None]

Msg(role, content) == [role |-> role, content |-> content]

\* chatMessages.filter((m) => m.content)
RECURSIVE FilterContent(_)
FilterContent(msgs) ==
  IF msgs = <<>> THEN <<>>
  ELSE IF Head(msgs).content = <<>> THEN FilterContent(Tail(msgs))
  ELSE <<Head(msgs)>> \o FilterContent(Tail(msgs))

\* the <dyad-problem-report> block of a report: reports are numbered by
\* the list of problems they hold, 0 is the report without problems
ReportBlocks == <<"report", "report2">>

\* removeNonEssentialTags: drops problem-report (and think) blocks
RECURSIVE removeNonEssentialTags(_)
removeNonEssentialTags(text) ==
  IF text = <<>> THEN <<>>
  ELSE IF \E n \in DOMAIN ReportBlocks : Head(text) = ReportBlocks[n]
  THEN removeNonEssentialTags(Tail(text))
  ELSE <<Head(text)>> \o removeNonEssentialTags(Tail(text))

\* index of the last opening write tag, 0 when there is none
LastOpenIndex(text) ==
  LET idx == {i \in 1..Len(text) : text[i] \in WriteOpenTokens}
  IN IF idx = {} THEN 0 ELSE CHOOSE i \in idx : \A j \in idx : j <= i

hasUnclosedDyadWrite(text) ==
  LET lastOpen == LastOpenIndex(text)
  IN IF lastOpen = 0 THEN FALSE
     ELSE ~(\E j \in lastOpen..Len(text) : text[j] = "close")

Signal == ctrls[turn.abortController]

Aborted == turn.abortController # 0 /\ Signal.aborted

\* positions at which the handler is suspended in an await
SuspendedPcs == {"open", "stream", "update", "report", "save", "cancelSave"}

\* enableFastCorrection, enableRealtimeMonitoring, routerModel configured:
\* fast monitor, streaming monitor, realtime monitoring without a router
\* model (no monitor)
MonitorSettings ==
  {<<TRUE, FALSE, FALSE>>, <<FALSE, TRUE, TRUE>>, <<FALSE, TRUE, FALSE>>}

\* settings.maxCorrectionAttempts; 0 stands for an unset (or zero) setting
CorrectionSettings == {0, 1}

\* the configurations a turn is run under; workflowStep is the chat row's
\* column, read with the settings.  Agent mode and auto-fix are each
\* combined with the fast monitor outside a workflow only.
SettingsSpace ==
  {x \in
     {[enableFastCorrection |-> m[1],
       enableRealtimeMonitoring |-> m[2],
       routerModel |-> m[3],
       maxCorrectionAttempts |-> a,
       selectedChatMode |-> mode,
       enableAutoFixProblems |-> fix,
       workflowStep |-> step] :
        m \in MonitorSettings, a \in CorrectionSettings, mode \in ChatModes,
        fix \in BOOLEAN, step \in TurnSteps} :
     (x.enableAutoFixProblems \/ x.selectedChatMode = "agent") =>
       /\ x.enableFastCorrection
       /\ x.workflowStep = None
       /\ ~(x.enableAutoFixProblems /\ x.selectedChatMode = "agent")}

IdleTurn ==
  [pc |-> "idle", phase |-> None, abortController |-> 0,
   fullResponse |-> <<>>, incrementalResponse |-> <<>>,
   chatMessages |-> <<>>, correctionAttempts |-> 0,
   continuationAttempts |-> 0, autoFixAttempts |-> 0,
   monitor |-> NoMonitor, lastDbSaveAt |-> 0, now |-> 0, problems |-> 0,
   originalFullResponse |-> <<>>, previousAttempts |-> <<>>,
   partialResponse |-> <<>>, pendingCorrections |-> {}, retval |-> None,
   reportOf |-> <<>>]

\* ctx: the messages given to streamText; errored: onError has run;
\* skipped: the continuation loop has ignored an event of this stream
NoStream == [ctx |-> <<>>, errored |-> FALSE, skipped |-> FALSE]

\* ------------------------------------------------- a monitor instance in use
\* the violation kinds of a monitor's class
Kinds(m) ==
  LET names == IF m.class = "FastMonitor" THEN FastKinds ELSE StreamingKinds
  IN {names[i] : i \in 1..Len(names)}

\* the detection of a monitor finds the kind in the text, whatever the
\* instance has already seen
Contains(m, text, kind) ==
  IF m.class = "FastMonitor"
  THEN checkChunk([m EXCEPT !.detected = Kinds(m) \ {kind}], text)
         .violationType = kind
  ELSE LET violations == detectQuickViolations(m, text)
       IN \E i \in 1..Len(violations) : violations[i] = kind

\* mode and workflowStep a monitor is constructed with
MonModes == {"build", "agent"}

MonSteps == {None, "planning", "docs"}

\* tokens of the text handed to the monitor
MonTokens ==
  {"txt", "fence", "fenceSp", "tool", "wfile", "open", "openMd", "delete"}

\* text the stream can have produced before the monitor is first called
PendingTexts == {<<>>, <<"fence">>, <<"open">>}

\* obj: the instance; pending: text produced before the first call;
\* text: everything handed to the instance so far; log: the kind each call
\* since the last reset() reported (None: no violation); always: the kinds
\* contained in every text the instance analysed since the last reset();
\* before: the kinds reported before the last reset(); settled: how the
\* promise of the last awaited analyzeChunk call settled and, if it
\* resolved, the correction of its value (<<>>: undefined or empty);
\* callbacks: the corrections handed to the correction callback;
\* routerCalls: the kind of each generateCorrection call started so far;
\* generating: the kinds whose generateCorrection call has not settled
MonitorUse(obj, pending) ==
  [obj |-> obj, pending |-> pending, text |-> <<>>, calls |-> 0,
   log |-> <<>>, always |-> Kinds(obj), resets |-> 0, before |-> {},
   settled |-> None, correction |-> <<>>, callbacks |-> <<>>,
   routerCalls |-> <<>>, generating |-> {}]

NoMonitorUse == MonitorUse(NoMonitor, <<>>)

\* ------------------------------------------ concurrent chat:stream turns
\* two invocations of the handler run concurrently, for the same or for
\* different conversations
TurnIds == {1, 2}

\* locals of one chat:stream invocation, as far as the shared maps and the
\* controllers depend on them
IdleInvocation ==
  [pc |-> "idle", chatId |-> 0, abortController |-> 0,
   fullResponse |-> <<>>, correctionAttempts |-> 0, errored |-> FALSE]

\* turns: the invocations; handled: conversation of the request handled by
\* the last step; awaiting: the renderer has started a turn for the
\* conversation and has neither cancelled it nor received its terminal
\* event; cancels: chat:cancel requests handled
NoInvocations ==
  [turns |-> [t \in TurnIds |-> IdleInvocation],
   handled |-> 0,
   awaiting |-> [c \in ChatIds |-> FALSE],
   cancels |-> 0]

\* --------------------------------------------------------- WorkflowManager
WORKFLOW_STEPS == <<"planning", "docs", "frontend", "backend", "testing">>

\* WORKFLOW_STEPS.indexOf(step) + 1: 0 when the step is not in the list
IndexOf(step) ==
  LET idx == {i \in 1..Len(WORKFLOW_STEPS) : WORKFLOW_STEPS[i] = step}
  IN IF idx = {} THEN 0 ELSE CHOOSE i \in idx : TRUE

\* exists: the chat row is in the table; status, step: its workflowStatus
\* and workflowStep columns (None: null); chat: the row advanceStep has
\* read and not yet acted on; log: per completed call "start", "stop",
\* "force", or what advanceStep returned (None: null)
IdleWorkflow(exists) ==
  [exists |-> exists, status |-> "idle", step |-> None,
   chat |-> <<>>, log |-> <<>>]

\* db.update(chats).set({workflowStatus, workflowStep}).where(id = chatId)
UpdateChat(status, step) ==
  IF wf.exists THEN [wf EXCEPT !.status = status, !.step = step] ELSE wf

WorkflowActive_anyRow(chat) == chat # <<"missing">>

\* the negation of advanceStep's first test: the row exists and its workflow
\* is active
WorkflowActive(chat) == chat # <<"missing">> /\ chat[1] = "active"

IsLastStep_early(step) == IndexOf(step) >= Len(WORKFLOW_STEPS) - 1

IsLastStep(step) == IndexOf(step) = Len(WORKFLOW_STEPS)

advanceStep_noRecovery(chat) ==
  IF ~WorkflowActive(chat) \/ IndexOf(chat[2]) = 0
  THEN [ret |-> None, status |-> wf.status, step |-> wf.step]
  ELSE IF IsLastStep(chat[2])
  THEN [ret |-> None, status |-> "idle", step |-> None]
  ELSE [ret |-> WORKFLOW_STEPS[IndexOf(chat[2]) + 1],
        status |-> wf.status,
        step |-> WORKFLOW_STEPS[IndexOf(chat[2]) + 1]]

\* what advanceStep does with the row it has read: the value it returns
\* and the columns it writes
advanceStep(chat) ==
  IF ~WorkflowActive(chat)
  THEN [ret |-> None, status |-> wf.status, step |-> wf.step]
  ELSE IF IndexOf(chat[2]) = 0
  THEN [ret |-> "planning", status |-> "active", step |-> "planning"]
  ELSE IF IsLastStep(chat[2])
  THEN [ret |-> None, status |-> "idle", step |-> None]
  ELSE [ret |-> WORKFLOW_STEPS[IndexOf(chat[2]) + 1],
        status |-> wf.status,
        step |-> WORKFLOW_STEPS[IndexOf(chat[2]) + 1]]

\* ------------------------------------------------ reasoning-delta events
\* reasoning text is a sequence of pieces of characters; "<" "dy" "ad" in a
\* row spell "<dyad", "<" "/" "dy" "ad" spell "</dyad". "FF1C" is the
\* look-alike character U+FF1C that escapeDyadTags writes in place of "<"
Pieces == {"<", "/", "dy", "ad"}

OpenPrefix == <<"<", "dy", "ad">>
ClosePrefix == <<"<", "/", "dy", "ad">>

\* the text has the prefix at position i
HasPrefixAt(text, i, prefix) ==
  /\ i + Len(prefix) - 1 <= Len(text)
  /\ SubSeq(text, i, i + Len(prefix) - 1) = prefix

\* String.replace(/pattern/g, replacement): every occurrence, left to right
RECURSIVE ReplaceAll(_, _, _)
ReplaceAll(text, pattern, replacement) ==
  IF text = <<>> THEN <<>>
  ELSE IF HasPrefixAt(text, 1, pattern)
  THEN replacement
         \o ReplaceAll(SubSeq(text, Len(pattern) + 1, Len(text)),
                       pattern, replacement)
  ELSE <<Head(text)>> \o ReplaceAll(Tail(text), pattern, replacement)

escapeDyadTags(text) ==
  ReplaceAll(ReplaceAll(text, OpenPrefix, <<"FF1C", "dy", "ad">>),
             ClosePrefix, <<"FF1C", "/", "dy", "ad">>)

\* fullResponse and inThinkingBlock of a processStreamChunks call; deltas:
\* the events it has consumed that count against MaxDeltas
NoChunks == [fullResponse |-> <<>>, inThinkingBlock |-> FALSE, deltas |-> 0]

\* no function called yet; the arguments are an empty response, or (of
\* "router") the outcome of a router model call
NoCall ==
  [fn |-> None, of |-> "response", text |-> <<>>, mode |-> "build",
   workflowStep |-> None, reply |-> [ok |-> FALSE, text |-> <<>>],
   out |-> None, prev |-> <<>>]

Init ==
  /\ settings \in SettingsSpace
  /\ activeStreams = [c \in ChatIds |-> 0]
  /\ partialResponses = [c \in ChatIds |-> <<>>]
  /\ ctrls = <<>>
  /\ turn = IdleTurn
  /\ stream = NoStream
  /\ db = <<>>
  /\ sent = [c \in ChatIds |-> [chunk |-> <<>>, end |-> 0, error |-> 0]]
  /\ hist = [cancels |-> 0, userCancel |-> None, mainStreams |-> 0,
             monitorAborts |-> <<>>, streamingReports |-> {},
             modelError |-> FALSE, failures |-> 0]
  /\ mon = NoMonitorUse
  /\ conc = NoInvocations
  /\ wf = IdleWorkflow(TRUE)
  /\ chunks = NoChunks
  /\ call = NoCall

\* safeSend: the end and error events are counted; of the chunk events the
\* content of the last one is kept, the response held by the handler after
\* the step (<<>> before the first event)
Send(channel, chatId) ==
  sent' = [sent EXCEPT ![chatId][channel] =
             IF channel = "chunk" THEN <<turn'.fullResponse>> ELSE @ + 1]

\* -------------------------------------------------------- chat:stream turn
\* codebasePrefix followed by the message history, whose last two rows are
\* the user prompt and the empty placeholder assistant message
CodebasePrefix ==
  <<Msg("user", <<"codebase">>), Msg("assistant", <<"ok">>)>>

LimitedHistory ==
  <<Msg("user", <<"prompt">>), Msg("assistant", <<>>)>>

ProblemFixPrompt == <<"fix-prompt">>

\* lines 565-782: controller registered, placeholder row inserted, first
\* chunk event sent
StartTurn ==
  /\ turn.pc = "idle"
  /\ ctrls' = Append(ctrls, NewAbortController)
  /\ activeStreams' = [activeStreams EXCEPT ![ReqChatId] = Len(ctrls) + 1]
  /\ db' = <<>>
  /\ turn' = [turn EXCEPT
       !.pc = "open",
       !.phase = IF settings.selectedChatMode = "agent"
                 THEN "agent" ELSE "main",
       !.abortController = Len(ctrls) + 1,
       !.chatMessages = CodebasePrefix \o LimitedHistory]
  /\ Send("chunk", ReqChatId)
  /\ UNCHANGED <<mon, conc, wf, chunks, call, settings, partialResponses, stream, hist>>

\* the chatMessages argument of the simpleStreamText call of each phase
StreamContext ==
  CASE turn.phase = "agent" -> LimitedHistory
    [] turn.phase = "cont" ->
         turn.chatMessages \o <<Msg("assistant", turn.fullResponse)>>
    [] turn.phase = "fix" ->
         turn.chatMessages
         \o <<Msg("assistant",
                  removeNonEssentialTags(turn.originalFullResponse))>>
         \o turn.previousAttempts
         \o <<Msg("user", ProblemFixPrompt)>>
    [] OTHER -> turn.chatMessages

\* monitor selection at the top of the correction loop
NewMonitor ==
  IF settings.enableFastCorrection
  THEN NewFastMonitor(settings.selectedChatMode, settings.workflowStep)
  ELSE IF settings.enableRealtimeMonitoring /\ settings.routerModel
  THEN NewStreamingMonitor(settings.selectedChatMode,
                           settings.workflowStep, FALSE)
  ELSE NoMonitor

\* await simpleStreamText(...) returns: streamText was called with the
\* filtered messages and the signal of the current controller
OpenStream ==
  /\ turn.pc = "open"
  /\ stream' = [ctx |-> FilterContent(StreamContext), errored |-> FALSE,
                skipped |-> FALSE]
  /\ turn' = [turn EXCEPT
       !.pc = "stream",
       !.incrementalResponse = <<>>,
       !.monitor = IF turn.phase = "main" THEN NewMonitor ELSE @,
       !.previousAttempts =
          IF turn.phase = "fix"
          THEN Append(@, Msg("user", ProblemFixPrompt)) ELSE @]
  /\ hist' = [hist EXCEPT
       !.mainStreams = IF turn.phase = "main" THEN @ + 1 ELSE @]
  /\ UNCHANGED <<mon, conc, wf, chunks, call, settings, activeStreams, partialResponses, ctrls, db, sent>>

\* handleTextDelta: the FastMonitor result for fullResponse + chunk
FastResult(tok) ==
  IF /\ turn.phase = "main"
     /\ turn.monitor.class = "FastMonitor"
     /\ settings.enableFastCorrection
  THEN checkChunk(turn.monitor, Append(turn.fullResponse, tok))
  ELSE NoViolation(turn.monitor.detected)

\* handleTextDelta: the un-awaited analyzeChunk call on a StreamingMonitor
StreamingResult(tok) ==
  IF /\ turn.phase = "main"
     /\ turn.monitor.class = "StreamingMonitor"
     /\ settings.enableRealtimeMonitoring
  THEN analyzeChunk(turn.monitor, <<tok>>)
  ELSE [monitor |-> turn.monitor, violationType |-> None]

\* the abort check that ends the loop of processStreamChunks; the
\* continuation loop checks at its top instead
AfterChunkPc(aborted) ==
  IF turn.phase # "cont" /\ aborted THEN "exit" ELSE "stream"

\* one text-delta event: handleTextDelta, the append, and
\* processResponseChunkUpdate up to its database await
DeliverText(tok, d) ==
  /\ turn.pc = "stream"
  /\ ~stream.errored
  /\ Len(removeNonEssentialTags(turn.fullResponse)) < MaxResp
  /\ IF turn.phase = "cont" /\ Aborted
     THEN /\ turn' = [turn EXCEPT !.pc = "exit"]
          /\ UNCHANGED <<partialResponses, ctrls, sent, hist>>
     ELSE LET fast == FastResult(tok)
              streaming == StreamingResult(tok)
              abort == fast.hasViolation /\ fast.correction # <<>>
              response == Append(turn.fullResponse, tok)
              save == Now(d) - turn.lastDbSaveAt >= DB_SAVE_INTERVAL_MS
          IN /\ ctrls' =
                  IF abort
                  THEN [ctrls EXCEPT ![turn.abortController] =
                          [aborted |-> TRUE,
                           correctionNeeded |-> fast.correction,
                           violationType |-> fast.violationType]]
                  ELSE ctrls
             /\ partialResponses' =
                  [partialResponses EXCEPT ![ReqChatId] = response]
             /\ turn' = [turn EXCEPT
                  !.fullResponse = response,
                  !.incrementalResponse = Append(@, tok),
                  !.monitor =
                     IF turn.monitor.class = "FastMonitor"
                     THEN [@ EXCEPT !.detected = fast.detected]
                     ELSE streaming.monitor,
                  !.pendingCorrections =
                     IF streaming.violationType = None THEN @
                     ELSE @ \cup {streaming.violationType},
                  !.now = Now(d),
                  !.pc = IF save THEN "update"
                         ELSE AfterChunkPc(abort \/ Aborted)]
             /\ IF save THEN UNCHANGED sent ELSE Send("chunk", ReqChatId)
             /\ hist' = [hist EXCEPT
                  !.monitorAborts =
                     IF abort THEN Append(@, fast.violationType) ELSE @]
  /\ UNCHANGED <<mon, conc, wf, chunks, call, settings, activeStreams, stream, db>>

DbWriteDone_clockNotSet ==
  /\ turn.pc = "update"
  /\ db' = turn.fullResponse
  /\ turn' = [turn EXCEPT !.pc = AfterChunkPc(Aborted)]
  /\ Send("chunk", ReqChatId)
  /\ UNCHANGED <<mon, conc, wf, chunks, call, settings, activeStreams, partialResponses, ctrls, stream, hist>>

\* the throttled snapshot write of processResponseChunkUpdate completes
DbWriteDone ==
  /\ turn.pc = "update"
  /\ db' = turn.fullResponse
  /\ turn' = [turn EXCEPT !.lastDbSaveAt = turn.now,
                          !.pc = AfterChunkPc(Aborted)]
  /\ Send("chunk", ReqChatId)
  /\ UNCHANGED <<mon, conc, wf, chunks, call, settings, activeStreams, partialResponses, ctrls, stream, hist>>

\* generateCorrection of a StreamingMonitor settles; without a callback the
\* correction text is only returned to the un-awaited caller
RouterReplies(kind) ==
  /\ kind \in turn.pendingCorrections
  /\ turn' = [turn EXCEPT !.pendingCorrections = @ \ {kind}]
  /\ hist' = [hist EXCEPT !.streamingReports = @ \cup {kind}]
  /\ UNCHANGED <<mon, conc, wf, chunks, call, settings, activeStreams, partialResponses, ctrls, stream,
                 db, sent>>

\* the stream is exhausted
StreamEnds ==
  /\ turn.pc = "stream"
  /\ turn' = [turn EXCEPT !.pc = "exit"]
  /\ UNCHANGED <<mon, conc, wf, chunks, call, settings, activeStreams, partialResponses, ctrls, stream,
                 db, sent, hist>>

\* the stream iteration rejects; inside the auto-fix try block the error
\* is caught and logged
StreamThrows ==
  /\ turn.pc = "stream"
  /\ Aborted \/ stream.errored \/ hist.failures < MaxFailures
  /\ turn' = [turn EXCEPT !.pc = IF turn.phase = "fix" THEN "final"
                                 ELSE "catch"]
  /\ hist' = [hist EXCEPT
       !.modelError = @ \/ ~Aborted,
       !.failures = IF Aborted \/ stream.errored THEN @ ELSE @ + 1]
  /\ UNCHANGED <<mon, conc, wf, chunks, call, settings, activeStreams, partialResponses, ctrls, stream,
                 db, sent>>

\* the onError callback given to streamText
OnError ==
  /\ turn.pc = "stream"
  /\ ~stream.errored
  /\ ~Aborted
  /\ hist.failures < MaxFailures
  /\ Send("error", ReqChatId)
  /\ activeStreams' = [activeStreams EXCEPT ![ReqChatId] = 0]
  /\ stream' = [stream EXCEPT !.errored = TRUE]
  /\ hist' = [hist EXCEPT !.modelError = TRUE, !.failures = @ + 1]
  /\ UNCHANGED <<mon, conc, wf, chunks, call, settings, partialResponses, ctrls, turn, db>>

\* the agent-mode stream is done: its text and "OK." join the context
ExitAgentStream ==
  /\ turn.pc = "exit" /\ turn.phase = "agent"
  /\ turn' = [turn EXCEPT
       !.chatMessages = @ \o <<Msg("assistant", turn.fullResponse),
                               Msg("user", <<"OK.">>)>>,
       !.phase = "main",
       !.pc = "open"]
  /\ UNCHANGED <<mon, conc, wf, chunks, call, settings, activeStreams, partialResponses, ctrls, stream,
                 db, sent, hist>>

\* abortController.signal.aborted && abortController._correctionNeeded
AbortedForCorrection == Aborted /\ Signal.correctionNeeded # <<>>

BudgetExhausted_after == turn.correctionAttempts > MAX_CORRECTION_ATTEMPTS

\* the test that ends the correction loop
BudgetExhausted == turn.correctionAttempts >= MAX_CORRECTION_ATTEMPTS

CorrectionMessages_swapped ==
  <<Msg("system", Signal.correctionNeeded),
    Msg("assistant", turn.fullResponse)>>

\* the two messages pushed before the stream is restarted
CorrectionMessages ==
  <<Msg("assistant", turn.fullResponse),
    Msg("system", Signal.correctionNeeded)>>

\* resume with correction: context extended, fresh controller registered
CorrectionRestart ==
  /\ turn.pc = "exit" /\ turn.phase = "main"
  /\ AbortedForCorrection
  /\ ~BudgetExhausted
  /\ ctrls' = Append(ctrls, NewAbortController)
  /\ activeStreams' = [activeStreams EXCEPT ![ReqChatId] = Len(ctrls) + 1]
  /\ turn' = [turn EXCEPT
       !.chatMessages = @ \o CorrectionMessages,
       !.correctionAttempts = @ + 1,
       !.abortController = Len(ctrls) + 1,
       !.pc = "open"]
  /\ UNCHANGED <<mon, conc, wf, chunks, call, settings, partialResponses, stream, db, sent, hist>>

\* normal finish, abort without correction, or max attempts reached
CorrectionLoopBreak ==
  /\ turn.pc = "exit" /\ turn.phase = "main"
  /\ ~(AbortedForCorrection /\ ~BudgetExhausted)
  /\ turn' = [turn EXCEPT !.pc = "afterCorrection"]
  /\ UNCHANGED <<mon, conc, wf, chunks, call, settings, activeStreams, partialResponses, ctrls, stream,
                 db, sent, hist>>

\* the if that guards the continuation loop
EnterContinuation ==
  /\ turn.pc = "afterCorrection"
  /\ turn' = [turn EXCEPT
       !.continuationAttempts = 0,
       !.pc = IF /\ ~Aborted
                 /\ settings.selectedChatMode # "ask"
                 /\ hasUnclosedDyadWrite(turn.fullResponse)
              THEN "contLoop" ELSE "afterCont"]
  /\ UNCHANGED <<mon, conc, wf, chunks, call, settings, activeStreams, partialResponses, ctrls, stream,
                 db, sent, hist>>

ContinuationCondition_unbounded ==
  /\ hasUnclosedDyadWrite(turn.fullResponse)
  /\ ~Aborted

ContinuationCondition ==
  /\ hasUnclosedDyadWrite(turn.fullResponse)
  /\ turn.continuationAttempts < MAX_CONTINUATION_ATTEMPTS
  /\ ~Aborted

\* the while test of the continuation loop
ContinuationLoop ==
  /\ \/ turn.pc = "contLoop"
     \/ turn.pc = "exit" /\ turn.phase = "cont"
  /\ turn' = IF ContinuationCondition
             THEN [turn EXCEPT !.continuationAttempts = @ + 1,
                               !.phase = "cont", !.pc = "open"]
             ELSE [turn EXCEPT !.pc = "afterCont"]
  /\ UNCHANGED <<mon, conc, wf, chunks, call, settings, activeStreams, partialResponses, ctrls, stream,
                 db, sent, hist>>

\* an event that is not a text-delta arrives in a continuation stream: the
\* abort check at the top of the loop body, then the event is ignored
ContinuationSkipsEvent ==
  /\ turn.pc = "stream" /\ turn.phase = "cont"
  /\ ~stream.errored
  /\ IF Aborted
     THEN turn' = [turn EXCEPT !.pc = "exit"] /\ UNCHANGED stream
     ELSE stream' = [stream EXCEPT !.skipped = TRUE] /\ UNCHANGED turn
  /\ UNCHANGED <<mon, conc, wf, chunks, call, settings, activeStreams, partialResponses, ctrls,
                 db, sent, hist>>

\* getDyadAddDependencyTags(fullResponse).length === 0
NoAddDependency(text) == ~Has(text, "dep")

\* the test of the if that guards the auto-fix block
AutoFixAllowed ==
  /\ ~Aborted
  /\ NoAddDependency(turn.fullResponse)
  /\ settings.enableAutoFixProblems
  /\ settings.selectedChatMode # "ask"

\* the if that guards the auto-fix block; generateProblemReport is called
\* with fullResponse (reportOf) and awaited
EnterAutoFix ==
  /\ turn.pc = "afterCont"
  /\ turn' = [turn EXCEPT
       !.autoFixAttempts = 0,
       !.originalFullResponse = turn.fullResponse,
       !.reportOf = IF AutoFixAllowed THEN turn.fullResponse ELSE @,
       !.pc = IF AutoFixAllowed THEN "report" ELSE "final"]
  /\ UNCHANGED <<mon, conc, wf, chunks, call, settings, activeStreams, partialResponses, ctrls, stream,
                 db, sent, hist>>

\* generateProblemReport resolves with n problems; the while test of the
\* auto-fix loop, and the report block appended for the next round
ReportDone(n) ==
  /\ turn.pc = "report"
  /\ turn' = IF n > 0 /\ turn.autoFixAttempts < MAX_AUTO_FIX_ATTEMPTS
                /\ ~Aborted
             THEN [turn EXCEPT !.problems = n,
                               !.reportOf = <<>>,
                               !.fullResponse = Append(@, ReportBlocks[n]),
                               !.autoFixAttempts = @ + 1,
                               !.phase = "fix", !.pc = "open"]
             ELSE [turn EXCEPT !.problems = n, !.reportOf = <<>>,
                               !.pc = "final"]
  /\ UNCHANGED <<mon, conc, wf, chunks, call, settings, activeStreams, partialResponses, ctrls, stream,
                 db, sent, hist>>

\* generateProblemReport rejects: caught by the auto-fix try block
ReportThrows ==
  /\ turn.pc = "report"
  /\ hist.failures < MaxFailures
  /\ turn' = [turn EXCEPT !.reportOf = <<>>, !.pc = "final"]
  /\ hist' = [hist EXCEPT !.failures = @ + 1]
  /\ UNCHANGED <<mon, conc, wf, chunks, call, settings, activeStreams, partialResponses, ctrls, stream,
                 db, sent>>

ReportInput_original == turn.originalFullResponse

\* the fullResponse argument of the generateProblemReport call in the loop
ReportInput == turn.fullResponse

\* an auto-fix stream is done: its text joins previousAttempts and the
\* problem report is generated again
ExitFixStream ==
  /\ turn.pc = "exit" /\ turn.phase = "fix"
  /\ turn' = [turn EXCEPT
       !.previousAttempts =
          Append(@, Msg("assistant",
                        removeNonEssentialTags(turn.incrementalResponse))),
       !.reportOf = ReportInput,
       !.pc = "report"]
  /\ UNCHANGED <<mon, conc, wf, chunks, call, settings, activeStreams, partialResponses, ctrls, stream,
                 db, sent, hist>>

\* if (!abortController.signal.aborted && fullResponse)
ShouldSave == ~Aborted /\ turn.fullResponse # <<>>

\* the save guard: either the final write is awaited or the handler returns
FinishTurn ==
  /\ turn.pc = "final"
  /\ turn' = IF ShouldSave
             THEN [turn EXCEPT !.pc = "save"]
             ELSE [turn EXCEPT !.pc = "done", !.retval = "chatId"]
  /\ UNCHANGED <<mon, conc, wf, chunks, call, settings, activeStreams, partialResponses, ctrls, stream,
                 db, sent, hist>>

\* the final write, processFullResponseActions when the settings read
\* again at this point auto-approve changes (statusError: it reported an
\* error), and the end event
SaveDone(autoApproveChanges, statusError) ==
  /\ turn.pc = "save"
  /\ db' = turn.fullResponse
  /\ LET approve == /\ autoApproveChanges
                    /\ settings.selectedChatMode # "ask"
     IN /\ statusError => approve
        /\ sent' = [sent EXCEPT ![ReqChatId] =
             [chunk |-> @.chunk,
              end |-> @.end + 1,
              error |-> IF statusError THEN @.error + 1 ELSE @.error]]
  /\ turn' = [turn EXCEPT !.pc = "done", !.retval = "chatId"]
  /\ UNCHANGED <<mon, conc, wf, chunks, call, settings, activeStreams, partialResponses, ctrls, stream, hist>>

\* the catch block of the handler
CatchError ==
  /\ turn.pc = "catch"
  /\ IF Aborted
     THEN /\ turn' =
               IF partialResponses[ReqChatId] # <<>>
               THEN [turn EXCEPT
                       !.partialResponse = partialResponses[ReqChatId],
                       !.pc = "cancelSave"]
               ELSE [turn EXCEPT !.pc = "done", !.retval = "chatId"]
          /\ UNCHANGED <<activeStreams, sent>>
     ELSE /\ Send("error", ReqChatId)
          /\ activeStreams' = [activeStreams EXCEPT ![ReqChatId] = 0]
          /\ turn' = [turn EXCEPT !.pc = "done", !.retval = "error"]
  /\ UNCHANGED <<mon, conc, wf, chunks, call, settings, partialResponses, ctrls, stream, db, hist>>

\* the annotated partial response is written and the map entry removed
CancelSaveDone ==
  /\ turn.pc = "cancelSave"
  /\ db' = Append(turn.partialResponse, "cancelled")
  /\ partialResponses' = [partialResponses EXCEPT ![ReqChatId] = <<>>]
  /\ turn' = [turn EXCEPT !.pc = "done", !.retval = "chatId"]
  /\ UNCHANGED <<mon, conc, wf, chunks, call, settings, activeStreams, ctrls, stream, sent, hist>>

\* ------------------------------------------------------------- chat:cancel
\* where the turn stands when chat:cancel aborts its controller: a monitor
\* has aborted the stream and the restart is still to come ("aborted"), a
\* stream is being consumed ("streaming"), or the handler is suspended in
\* another await ("suspended")
CancelPoint ==
  IF turn.phase = "main" /\ Aborted /\ Signal.correctionNeeded # <<>>
  THEN "aborted"
  ELSE IF turn.pc \in {"stream", "update"} THEN "streaming"
  ELSE "suspended"

\* runs only while no other handler is running: the turn is suspended in an
\* await, has not started, or has returned
CancelStream(chatId) ==
  /\ turn.pc \in SuspendedPcs \cup {"idle", "done"}
  /\ hist.cancels < MaxCancels
  /\ LET abortController == activeStreams[chatId]
     IN IF abortController # 0
        THEN /\ ctrls' = [ctrls EXCEPT ![abortController].aborted = TRUE]
             /\ activeStreams' = [activeStreams EXCEPT ![chatId] = 0]
        ELSE UNCHANGED <<ctrls, activeStreams>>
  /\ Send("end", chatId)
  /\ hist' = [hist EXCEPT
       !.cancels = @ + 1,
       !.userCancel =
          IF @ = None /\ chatId = ReqChatId /\ activeStreams[chatId] # 0
             /\ turn.pc \in SuspendedPcs
          THEN CancelPoint ELSE @]
  /\ UNCHANGED <<mon, conc, wf, chunks, call, settings, partialResponses, turn, stream, db>>

\* ----------------------------------------------------------- specification
Next ==
  \/ StartTurn
  \/ OpenStream
  \/ \E tok \in StreamTokens, d \in Delays : DeliverText(tok, d)
  \/ DbWriteDone
  \/ \E kind \in turn.pendingCorrections : RouterReplies(kind)
  \/ StreamEnds
  \/ StreamThrows
  \/ OnError
  \/ ExitAgentStream
  \/ CorrectionRestart
  \/ CorrectionLoopBreak
  \/ EnterContinuation
  \/ ContinuationLoop
  \/ EnterAutoFix
  \/ \E n \in 0..1 : ReportDone(n)
  \/ ReportThrows
  \/ ExitFixStream
  \/ FinishTurn
  \/ \E autoApproveChanges, statusError \in BOOLEAN :
       SaveDone(autoApproveChanges, statusError)
  \/ CatchError
  \/ CancelSaveDone
  \/ CancelStream(ReqChatId)

Spec == Init /\ [][Next]_vars

\* ----------------------------- specification of the two recovery loops
\* turns without a monitor, in the modes and with the responses that decide
\* the continuation loop and the auto-fix loop
RecoverySettings ==
  {[enableFastCorrection |-> FALSE,
    enableRealtimeMonitoring |-> FALSE,
    routerModel |-> FALSE,
    maxCorrectionAttempts |-> 0,
    selectedChatMode |-> mode,
    enableAutoFixProblems |-> fix,
    workflowStep |-> None] : mode \in {"build", "ask"}, fix \in BOOLEAN}

RecoveryInit ==
  /\ settings \in RecoverySettings
  /\ activeStreams = [c \in ChatIds |-> 0]
  /\ partialResponses = [c \in ChatIds |-> <<>>]
  /\ ctrls = <<>>
  /\ turn = IdleTurn
  /\ stream = NoStream
  /\ db = <<>>
  /\ sent = [c \in ChatIds |-> [chunk |-> <<>>, end |-> 0, error |-> 0]]
  /\ hist = [cancels |-> 0, userCancel |-> None, mainStreams |-> 0,
             monitorAborts |-> <<>>, streamingReports |-> {},
             modelError |-> FALSE, failures |-> 0]
  /\ mon = NoMonitorUse
  /\ conc = NoInvocations
  /\ wf = IdleWorkflow(TRUE)
  /\ chunks = NoChunks
  /\ call = NoCall

RecoveryNext ==
  \/ StartTurn
  \/ OpenStream
  \/ \E tok \in {"open", "close", "dep"}, d \in Delays : DeliverText(tok, d)
  \/ ContinuationSkipsEvent
  \/ DbWriteDone
  \/ StreamEnds
  \/ StreamThrows
  \/ OnError
  \/ CorrectionLoopBreak
  \/ EnterContinuation
  \/ ContinuationLoop
  \/ EnterAutoFix
  \/ \E n \in 0..Len(ReportBlocks) : ReportDone(n)
  \/ ReportThrows
  \/ ExitFixStream
  \/ FinishTurn
  \/ \E autoApproveChanges, statusError \in BOOLEAN :
       SaveDone(autoApproveChanges, statusError)
  \/ CatchError
  \/ CancelSaveDone
  \/ CancelStream(ReqChatId)

RecoverySpec == RecoveryInit /\ [][RecoveryNext]_vars

\* ------------------------------------------ specification of the monitors
\* the settings of a turn that has not started
IdleSettings ==
  CHOOSE x \in SettingsSpace :
    /\ x.enableFastCorrection /\ x.maxCorrectionAttempts = 0
    /\ x.selectedChatMode = "build" /\ ~x.enableAutoFixProblems
    /\ x.workflowStep = None

MonitorInit ==
  /\ settings = IdleSettings
  /\ activeStreams = [c \in ChatIds |-> 0]
  /\ partialResponses = [c \in ChatIds |-> <<>>]
  /\ ctrls = <<>>
  /\ turn = IdleTurn
  /\ stream = NoStream
  /\ db = <<>>
  /\ sent = [c \in ChatIds |-> [chunk |-> <<>>, end |-> 0, error |-> 0]]
  /\ hist = [cancels |-> 0, userCancel |-> None, mainStreams |-> 0,
             monitorAborts |-> <<>>, streamingReports |-> {},
             modelError |-> FALSE, failures |-> 0]
  /\ conc = NoInvocations
  /\ wf = IdleWorkflow(TRUE)
  /\ chunks = NoChunks
  /\ call = NoCall
  /\ \E mode \in MonModes, step \in MonSteps :
       \E obj \in {NewFastMonitor(mode, step),
                   NewStreamingMonitor(mode, step, FALSE)} :
         \E pending \in PendingTexts :
           mon = MonitorUse(obj, pending)

TurnVars ==
  <<settings, activeStreams, partialResponses, ctrls, turn, stream, db,
    sent, hist, conc, wf, chunks, call>>

\* the bookkeeping of one call that analysed text and reported kind
Called(obj, chunk, analysed, kind) ==
  [mon EXCEPT
     !.obj = obj,
     !.pending = <<>>,
     !.text = @ \o chunk,
     !.calls = @ + 1,
     !.log = Append(@, kind),
     !.always = {k \in @ : Contains(obj, analysed, k)}]

\* monitor.checkChunk(fullResponse + chunk) on a FastMonitor
CallCheckChunk(tok) ==
  /\ mon.obj.class = "FastMonitor"
  /\ mon.calls < MaxCalls
  /\ LET chunk == Append(mon.pending, tok)
         text == mon.text \o chunk
         result == checkChunk(mon.obj, text)
     IN mon' = Called([mon.obj EXCEPT !.detected = result.detected],
                      chunk, text, result.violationType)
  /\ UNCHANGED TurnVars

\* await monitor.analyzeChunk(chunk) on a StreamingMonitor
CallAnalyzeChunk(tok) ==
  /\ mon.obj.class = "StreamingMonitor"
  /\ mon.calls < MaxCalls
  /\ LET chunk == Append(mon.pending, tok)
         result == analyzeChunk(mon.obj, chunk)
     IN mon' = Called(result.monitor, chunk,
                      result.monitor.accumulatedResponse,
                      result.violationType)
  /\ UNCHANGED TurnVars

\* monitor.reset()
CallReset ==
  /\ mon.calls > 0
  /\ mon.resets < MaxResets
  /\ mon' = [mon EXCEPT
       !.obj = reset(@),
       !.log = <<>>,
       !.always = Kinds(mon.obj),
       !.resets = @ + 1,
       !.before = @ \cup ({mon.log[i] : i \in 1..Len(mon.log)} \ {None})]
  /\ UNCHANGED TurnVars

\* await monitor.analyzeChunk(chunk) on a StreamingMonitor, from the call
\* until its promise settles: generateCorrection is awaited for a new
\* kind, the callback gets a non-empty correction
AwaitAnalyzeChunk(tok, router) ==
  /\ mon.obj.class = "StreamingMonitor"
  /\ mon.calls < MaxCalls
  /\ LET chunk == Append(mon.pending, tok)
         result == analyzeChunk(mon.obj, chunk)
         generated ==
           IF result.violationType = None
           THEN [settled |-> "resolved", correction |-> <<>>]
           ELSE generateCorrection(result.violationType, router)
     IN mon' = [Called(result.monitor, chunk,
                       result.monitor.accumulatedResponse,
                       result.violationType)
                  EXCEPT !.settled = generated.settled,
                         !.correction = generated.correction,
                         !.routerCalls =
                            IF result.violationType = None THEN @
                            ELSE Append(@, result.violationType),
                         !.callbacks =
                            IF /\ generated.settled = "resolved"
                               /\ generated.correction # <<>>
                               /\ mon.obj.hasCallback
                            THEN Append(@, generated.correction) ELSE @]
  /\ UNCHANGED TurnVars

MonitorNext ==
  \/ \E tok \in MonTokens : CallCheckChunk(tok)
  \/ \E tok \in MonTokens : CallAnalyzeChunk(tok)
  \/ CallReset

MonitorSpec == MonitorInit /\ [][MonitorNext]_vars

\* ----------------------- specification of the router-model corrections
\* a StreamingMonitor, with or without a correction callback, whose
\* analyzeChunk calls are awaited one after another
RouterInit ==
  /\ settings = IdleSettings
  /\ activeStreams = [c \in ChatIds |-> 0]
  /\ partialResponses = [c \in ChatIds |-> <<>>]
  /\ ctrls = <<>>
  /\ turn = IdleTurn
  /\ stream = NoStream
  /\ db = <<>>
  /\ sent = [c \in ChatIds |-> [chunk |-> <<>>, end |-> 0, error |-> 0]]
  /\ hist = [cancels |-> 0, userCancel |-> None, mainStreams |-> 0,
             monitorAborts |-> <<>>, streamingReports |-> {},
             modelError |-> FALSE, failures |-> 0]
  /\ conc = NoInvocations
  /\ wf = IdleWorkflow(TRUE)
  /\ chunks = NoChunks
  /\ call = NoCall
  /\ \E mode \in MonModes, step \in MonSteps, onCorrection \in BOOLEAN :
       mon = MonitorUse(NewStreamingMonitor(mode, step, onCorrection), <<>>)

RouterNext ==
  \/ \E tok \in {"txt", "fence", "tool", "open", "delete"},
        router \in {"fails", "blank", "text"} :
       AwaitAnalyzeChunk(tok, router)
  \/ CallReset

RouterSpec == RouterInit /\ [][RouterNext]_vars

\* ---------------------------- analyzeChunk calls that are not awaited
\* monitor.analyzeChunk(chunk) from the call to its first await: the chunk
\* is appended, the first new kind is marked and generateCorrection is
\* called for it; without a new kind the call is over
StartAnalyzeChunk(tok) ==
  /\ mon.obj.class = "StreamingMonitor"
  /\ mon.calls < MaxCalls
  /\ LET result == analyzeChunk(mon.obj, <<tok>>)
         kind == result.violationType
     IN mon' = [Called(result.monitor, <<tok>>,
                       result.monitor.accumulatedResponse, kind)
                  EXCEPT !.routerCalls =
                            IF kind = None THEN @ ELSE Append(@, kind),
                         !.generating =
                            IF kind = None THEN @ ELSE @ \cup {kind}]
  /\ UNCHANGED TurnVars

\* the generateCorrection call for kind settles and its analyzeChunk call
\* runs to its return
CorrectionSettles(kind, router) ==
  /\ kind \in mon.generating
  /\ LET generated == generateCorrection(kind, router)
     IN mon' = [mon EXCEPT
          !.generating = @ \ {kind},
          !.settled = generated.settled,
          !.correction = generated.correction,
          !.callbacks = IF /\ generated.settled = "resolved"
                           /\ generated.correction # <<>>
                           /\ mon.obj.hasCallback
                        THEN Append(@, generated.correction) ELSE @]
  /\ UNCHANGED TurnVars

OverlapNext ==
  \/ \E tok \in {"txt", "fence", "tool", "open", "delete"} :
       StartAnalyzeChunk(tok)
  \/ \E i \in 1..Len(StreamingKinds), router \in {"fails", "blank", "text"} :
       CorrectionSettles(StreamingKinds[i], router)

OverlapSpec == RouterInit /\ [][OverlapNext]_vars

\* ---------------------------------------- specification of concurrency
\* Several chat:stream invocations and chat:cancel requests interleave at
\* the awaits of the handlers.  An invocation is followed through the
\* statements that read or write activeStreams, partialResponses and the
\* controllers: registration, the chunk update, the monitor abort, the
\* correction restart, onError, the return and the catch block.
ConcSettings ==
  CHOOSE x \in SettingsSpace :
    /\ x.enableFastCorrection /\ x.maxCorrectionAttempts = 1
    /\ x.selectedChatMode = "build" /\ ~x.enableAutoFixProblems
    /\ x.workflowStep = None

ConcInit ==
  /\ settings = ConcSettings
  /\ activeStreams = [c \in ChatIds |-> 0]
  /\ partialResponses = [c \in ChatIds |-> <<>>]
  /\ ctrls = <<>>
  /\ turn = IdleTurn
  /\ stream = NoStream
  /\ db = <<>>
  /\ sent = [c \in ChatIds |-> [chunk |-> <<>>, end |-> 0, error |-> 0]]
  /\ hist = [cancels |-> 0, userCancel |-> None, mainStreams |-> 0,
             monitorAborts |-> <<>>, streamingReports |-> {},
             modelError |-> FALSE, failures |-> 0]
  /\ mon = NoMonitorUse
  /\ conc = NoInvocations
  /\ wf = IdleWorkflow(TRUE)
  /\ chunks = NoChunks
  /\ call = NoCall

ConcFrame ==
  <<settings, turn, stream, db, hist, mon, wf, chunks, call>>

\* tokens of the text-deltas of a concurrent turn
ConcTokens == {"txt", "fence"}

Inv(t) == conc.turns[t]

InvAborted(t) == ctrls[Inv(t).abortController].aborted

InvAbortedForCorrection(t) ==
  InvAborted(t) /\ ctrls[Inv(t).abortController].correctionNeeded # <<>>

\* the invocation's record replaced, the request noted as handled
Handle(t, chatId, rec) ==
  [conc EXCEPT !.turns[t] = rec, !.handled = chatId]

\* a handler runs from one await to the next without interruption: a
\* request is handled only while every other invocation is suspended
OthersSuspended(t) ==
  \A u \in TurnIds \ {t} : Inv(u).pc \in {"idle", "stream", "update", "done"}

\* the invocation has returned: its locals are gone
Returned(t) == [IdleInvocation EXCEPT !.pc = "done", !.chatId = Inv(t).chatId]

RegisteredController_latest(chatId) == Len(ctrls)

\* activeStreams.get(chatId)
RegisteredController(chatId) == activeStreams[chatId]

\* the renderer starts a turn for a conversation it is not awaiting:
\* a controller is created and registered under req.chatId
ConcStartTurn(t, chatId) ==
  /\ OthersSuspended(t)
  /\ Inv(t).pc = "idle"
  /\ \A u \in TurnIds : u < t => Inv(u).pc # "idle"
  /\ ~conc.awaiting[chatId]
  /\ ctrls' = Append(ctrls, NewAbortController)
  /\ activeStreams' = [activeStreams EXCEPT ![chatId] = Len(ctrls) + 1]
  /\ conc' = [Handle(t, chatId,
                     [Inv(t) EXCEPT !.pc = "stream", !.chatId = chatId,
                                    !.abortController = Len(ctrls) + 1])
              EXCEPT !.awaiting[chatId] = TRUE]
  /\ UNCHANGED <<partialResponses, sent>>
  /\ UNCHANGED ConcFrame

\* a text-delta: the monitor of the stream checks fullResponse + chunk and
\* aborts the invocation's controller; partialResponses.set(req.chatId, ..);
\* the handler then awaits the snapshot write
ConcDeliverText(t, tok) ==
  /\ OthersSuspended(t)
  /\ Inv(t).pc = "stream"
  /\ ~Inv(t).errored
  /\ Len(Inv(t).fullResponse) < MaxResp
  /\ LET response == Append(Inv(t).fullResponse, tok)
         result == checkChunk(NewMonitor, response)
         abort == result.hasViolation /\ result.correction # <<>>
     IN /\ ctrls' =
             IF abort
             THEN [ctrls EXCEPT ![Inv(t).abortController] =
                     [aborted |-> TRUE,
                      correctionNeeded |-> result.correction,
                      violationType |-> result.violationType]]
             ELSE ctrls
        /\ partialResponses' =
             [partialResponses EXCEPT ![Inv(t).chatId] = response]
        /\ conc' = Handle(t, Inv(t).chatId,
                          [Inv(t) EXCEPT !.fullResponse = response,
                                         !.pc = "update"])
  /\ UNCHANGED <<activeStreams, sent>>
  /\ UNCHANGED ConcFrame

\* the snapshot write is done: the loop goes on unless the signal is set
ConcDbWriteDone(t) ==
  /\ OthersSuspended(t)
  /\ Inv(t).pc = "update"
  /\ conc' = Handle(t, Inv(t).chatId,
                    [Inv(t) EXCEPT !.pc = IF InvAborted(t) THEN "exit"
                                          ELSE "stream"])
  /\ UNCHANGED <<activeStreams, partialResponses, ctrls, sent>>
  /\ UNCHANGED ConcFrame

ConcStreamEnds(t) ==
  /\ OthersSuspended(t)
  /\ Inv(t).pc = "stream"
  /\ conc' = Handle(t, Inv(t).chatId, [Inv(t) EXCEPT !.pc = "exit"])
  /\ UNCHANGED <<activeStreams, partialResponses, ctrls, sent>>
  /\ UNCHANGED ConcFrame

ConcStreamThrows(t) ==
  /\ OthersSuspended(t)
  /\ Inv(t).pc = "stream"
  /\ InvAborted(t) \/ Inv(t).errored
  /\ conc' = Handle(t, Inv(t).chatId, [Inv(t) EXCEPT !.pc = "catch"])
  /\ UNCHANGED <<activeStreams, partialResponses, ctrls, sent>>
  /\ UNCHANGED ConcFrame

\* onError of streamText: error event, activeStreams.delete(req.chatId)
ConcOnError(t) ==
  /\ OthersSuspended(t)
  /\ Inv(t).pc = "stream"
  /\ ~Inv(t).errored
  /\ ~InvAborted(t)
  /\ Send("error", Inv(t).chatId)
  /\ activeStreams' = [activeStreams EXCEPT ![Inv(t).chatId] = 0]
  /\ conc' = [Handle(t, Inv(t).chatId, [Inv(t) EXCEPT !.errored = TRUE])
              EXCEPT !.awaiting[Inv(t).chatId] = FALSE]
  /\ UNCHANGED <<partialResponses, ctrls>>
  /\ UNCHANGED ConcFrame

\* resume with correction: a fresh controller registered under req.chatId
ConcCorrectionRestart(t) ==
  /\ OthersSuspended(t)
  /\ Inv(t).pc = "exit"
  /\ InvAbortedForCorrection(t)
  /\ Inv(t).correctionAttempts < MAX_CORRECTION_ATTEMPTS
  /\ ctrls' = Append(ctrls, NewAbortController)
  /\ activeStreams' =
       [activeStreams EXCEPT ![Inv(t).chatId] = Len(ctrls) + 1]
  /\ conc' = Handle(t, Inv(t).chatId,
                    [Inv(t) EXCEPT !.correctionAttempts = @ + 1,
                                   !.abortController = Len(ctrls) + 1,
                                   !.pc = "stream"])
  /\ UNCHANGED <<partialResponses, sent>>
  /\ UNCHANGED ConcFrame

\* the handler returns req.chatId; the end event is sent when the response
\* is saved
ConcReturn(t) ==
  /\ OthersSuspended(t)
  /\ Inv(t).pc = "exit"
  /\ ~(InvAbortedForCorrection(t)
       /\ Inv(t).correctionAttempts < MAX_CORRECTION_ATTEMPTS)
  /\ LET saved == ~InvAborted(t) /\ Inv(t).fullResponse # <<>>
     IN /\ IF saved THEN Send("end", Inv(t).chatId) ELSE UNCHANGED sent
        /\ conc' = [Handle(t, Inv(t).chatId, Returned(t))
                    EXCEPT !.awaiting[Inv(t).chatId] =
                             IF saved THEN FALSE ELSE @]
  /\ UNCHANGED <<activeStreams, partialResponses, ctrls>>
  /\ UNCHANGED ConcFrame

\* the catch block: partialResponses.delete(req.chatId) on a cancelled
\* turn, else the error event and activeStreams.delete(req.chatId)
ConcCatchError(t) ==
  /\ OthersSuspended(t)
  /\ Inv(t).pc = "catch"
  /\ IF InvAborted(t)
     THEN /\ partialResponses' =
               [partialResponses EXCEPT ![Inv(t).chatId] = <<>>]
          /\ conc' = Handle(t, Inv(t).chatId,
                            Returned(t))
          /\ UNCHANGED <<activeStreams, sent>>
     ELSE /\ Send("error", Inv(t).chatId)
          /\ activeStreams' = [activeStreams EXCEPT ![Inv(t).chatId] = 0]
          /\ conc' = [Handle(t, Inv(t).chatId,
                             Returned(t))
                      EXCEPT !.awaiting[Inv(t).chatId] = FALSE]
          /\ UNCHANGED partialResponses
  /\ UNCHANGED ctrls
  /\ UNCHANGED ConcFrame

\* chat:cancel for a conversation
ConcCancelStream(chatId) ==
  /\ OthersSuspended(0)
  /\ conc.cancels < MaxCancels
  /\ LET abortController == RegisteredController(chatId)
     IN IF abortController # 0
        THEN /\ ctrls' = [ctrls EXCEPT ![abortController].aborted = TRUE]
             /\ activeStreams' = [activeStreams EXCEPT ![chatId] = 0]
        ELSE UNCHANGED <<ctrls, activeStreams>>
  /\ Send("end", chatId)
  /\ conc' = [conc EXCEPT !.handled = chatId,
                          !.awaiting[chatId] = FALSE,
                          !.cancels = @ + 1]
  /\ UNCHANGED partialResponses
  /\ UNCHANGED ConcFrame

ConcNext ==
  \/ \E t \in TurnIds, chatId \in ChatIds : ConcStartTurn(t, chatId)
  \/ \E t \in TurnIds, tok \in ConcTokens : ConcDeliverText(t, tok)
  \/ \E t \in TurnIds : ConcDbWriteDone(t)
  \/ \E t \in TurnIds : ConcStreamEnds(t)
  \/ \E t \in TurnIds : ConcStreamThrows(t)
  \/ \E t \in TurnIds : ConcOnError(t)
  \/ \E t \in TurnIds : ConcCorrectionRestart(t)
  \/ \E t \in TurnIds : ConcReturn(t)
  \/ \E t \in TurnIds : ConcCatchError(t)
  \/ \E chatId \in ChatIds : ConcCancelStream(chatId)

ConcurrentSpec == ConcInit /\ [][ConcNext]_vars

\* ------------------------------------- specification of the workflow manager
\* the calls are made one after another on one conversation
WorkflowInit ==
  /\ settings = IdleSettings
  /\ activeStreams = [c \in ChatIds |-> 0]
  /\ partialResponses = [c \in ChatIds |-> <<>>]
  /\ ctrls = <<>>
  /\ turn = IdleTurn
  /\ stream = NoStream
  /\ db = <<>>
  /\ sent = [c \in ChatIds |-> [chunk |-> <<>>, end |-> 0, error |-> 0]]
  /\ hist = [cancels |-> 0, userCancel |-> None, mainStreams |-> 0,
             monitorAborts |-> <<>>, streamingReports |-> {},
             modelError |-> FALSE, failures |-> 0]
  /\ mon = NoMonitorUse
  /\ conc = NoInvocations
  /\ \E exists \in BOOLEAN : wf = IdleWorkflow(exists)
  /\ chunks = NoChunks
  /\ call = NoCall

WorkflowFrame ==
  <<settings, activeStreams, partialResponses, ctrls, turn, stream, db,
    sent, hist, mon, conc, chunks, call>>

\* a call can start: the one before has completed
CallAllowed == wf.chat = <<>> /\ Len(wf.log) < MaxOps

Logged(w, entry) == [w EXCEPT !.log = Append(@, entry)]

startWorkflow ==
  /\ CallAllowed
  /\ wf' = Logged(UpdateChat("active", "planning"), "start")
  /\ UNCHANGED WorkflowFrame

stopWorkflow_statusOnly ==
  /\ CallAllowed
  /\ wf' = Logged(UpdateChat("idle", wf.step), "stop")
  /\ UNCHANGED WorkflowFrame

stopWorkflow ==
  /\ CallAllowed
  /\ wf' = Logged(UpdateChat("idle", None), "stop")
  /\ UNCHANGED WorkflowFrame

forceStep(step) ==
  /\ CallAllowed
  /\ wf' = Logged(UpdateChat("active", step), "force")
  /\ UNCHANGED WorkflowFrame

\* advanceStep up to its second await: getChatState has returned the row
getChatState ==
  /\ CallAllowed
  /\ wf' = [wf EXCEPT !.chat = IF wf.exists THEN <<wf.status, wf.step>>
                                ELSE <<"missing">>]
  /\ UNCHANGED WorkflowFrame

\* advanceStep from the row it has read to its return
AdvanceStepReturns ==
  /\ wf.chat # <<>>
  /\ LET result == advanceStep(wf.chat)
     IN wf' = [Logged(UpdateChat(result.status, result.step), result.ret)
                 EXCEPT !.chat = <<>>]
  /\ UNCHANGED WorkflowFrame

WorkflowNext ==
  \/ startWorkflow
  \/ stopWorkflow
  \/ \E i \in 1..Len(WORKFLOW_STEPS) : forceStep(WORKFLOW_STEPS[i])
  \/ getChatState
  \/ AdvanceStepReturns

WorkflowSpec == WorkflowInit /\ [][WorkflowNext]_vars

\* ------------------------- workflow calls that interleave at their awaits
\* a whole call that runs between the two awaits of an advanceStep call:
\* it writes the columns while the row that call has read is still held
Meanwhile(status, step, entry) ==
  /\ wf.chat # <<>>
  /\ Len(wf.log) < MaxOps
  /\ wf' = Logged(UpdateChat(status, step), entry)
  /\ UNCHANGED WorkflowFrame

InterleavedNext ==
  \/ startWorkflow
  \/ stopWorkflow
  \/ getChatState
  \/ AdvanceStepReturns
  \/ Meanwhile("active", "planning", "start")
  \/ Meanwhile("idle", None, "stop")
  \/ LET result ==
           advanceStep(IF wf.exists THEN <<wf.status, wf.step>>
                       ELSE <<"missing">>)
     IN Meanwhile(result.status, result.step, result.ret)

InterleavedSpec == WorkflowInit /\ [][InterleavedNext]_vars

\* ------------------------------ workflow calls on a row persisted earlier
\* the two columns are text columns: the row may hold any status and any
\* step, also one that is no WorkflowStep
PersistedInit ==
  /\ settings = IdleSettings
  /\ activeStreams = [c \in ChatIds |-> 0]
  /\ partialResponses = [c \in ChatIds |-> <<>>]
  /\ ctrls = <<>>
  /\ turn = IdleTurn
  /\ stream = NoStream
  /\ db = <<>>
  /\ sent = [c \in ChatIds |-> [chunk |-> <<>>, end |-> 0, error |-> 0]]
  /\ hist = [cancels |-> 0, userCancel |-> None, mainStreams |-> 0,
             monitorAborts |-> <<>>, streamingReports |-> {},
             modelError |-> FALSE, failures |-> 0]
  /\ mon = NoMonitorUse
  /\ conc = NoInvocations
  /\ \E status \in {"idle", "active"},
        step \in {None, "review"} \cup
                 {WORKFLOW_STEPS[i] : i \in 1..Len(WORKFLOW_STEPS)} :
       wf = [IdleWorkflow(TRUE) EXCEPT !.status = status, !.step = step]
  /\ chunks = NoChunks
  /\ call = NoCall

PersistedSpec == PersistedInit /\ [][WorkflowNext]_vars

\* ----------------------------------- the set-up of one chat:stream turn
\* the prompts of a turn: the three workflow commands, a plain prompt and a
\* prompt with the keyword ultrathink in it
Prompts == {"/workflow stop", "/workflow", "/next", "fix", "ultrathink fix"}

\* routerResponse.trim().toLowerCase(); None: the router is disabled, its
\* call failed or it answered nothing
RouterClassifications ==
  {None, "debugging", "frontend", "backend", "ultrathink", "general"}

\* settings.taskModels; a model is its name, None: not configured
TaskModelsSpace ==
  [useTaskBasedSwitching : BOOLEAN, frontend : {None, "frontendModel"},
   backend : {None, "backendModel"}, debugging : {None, "debuggingModel"}]

\* settings.enableFastCorrection, or enableRealtimeMonitoring with a router
\* model; None: neither
Monitorings == {"fast", "realtime", None}

getTaskTypeForStep(step) ==
  CASE step = "frontend" -> "frontend"
    [] step = "backend" -> "backend"
    [] step = "testing" -> "debugging"
    [] OTHER -> "general"

\* the fragment of a step is written as the step's name; a step that is no
\* WorkflowStep has the empty fragment
getSystemPromptForStep(step) ==
  IF IndexOf(step) # 0 THEN <<step>> ELSE <<>>

selectModel_overrideFirst(chatState, routerClassification, taskModels, ultrathinkModel, prompt) ==
  IF chatState[1] = "active" /\ chatState[2] # None
       /\ routerClassification = "debugging"
  THEN [targetModel |-> taskModels.debugging,
        effectiveTaskType |-> "debugging", systemPromptSuffix |-> <<>>]
  ELSE [targetModel |-> "selectedModel", effectiveTaskType |-> None,
        systemPromptSuffix |-> getSystemPromptForStep(chatState[2])]

\* targetModel, effectiveTaskType and systemPromptSuffix after the model
\* selection of the turn; chatState: the row getChatState returned
selectModel(chatState, routerClassification, taskModels, ultrathinkModel, prompt) ==
  IF chatState[1] = "active" /\ chatState[2] # None
  THEN IF routerClassification = "debugging" /\ taskModels.debugging # None
       THEN [targetModel |-> taskModels.debugging,
             effectiveTaskType |-> "debugging", systemPromptSuffix |-> <<>>]
       ELSE LET step == chatState[2]
                taskType == getTaskTypeForStep(step)
            IN [targetModel |->
                  IF /\ taskModels.useTaskBasedSwitching
                     /\ taskType # "general"
                     /\ taskModels[taskType] # None
                  THEN taskModels[taskType] ELSE "selectedModel",
                effectiveTaskType |->
                  IF taskType = "general" THEN step
                  ELSE IF taskModels.useTaskBasedSwitching THEN taskType
                  ELSE None,
                systemPromptSuffix |-> getSystemPromptForStep(step)]
  ELSE IF routerClassification # None
  THEN [targetModel |->
          IF routerClassification = "ultrathink" /\ ultrathinkModel # None
          THEN ultrathinkModel
          ELSE IF /\ taskModels.useTaskBasedSwitching
                  /\ routerClassification
                       \in {"frontend", "backend", "debugging"}
                  /\ taskModels[routerClassification] # None
          THEN taskModels[routerClassification] ELSE "selectedModel",
        effectiveTaskType |-> None, systemPromptSuffix |-> <<>>]
  ELSE [targetModel |->
          IF prompt = "ultrathink fix" /\ ultrathinkModel # None
          THEN ultrathinkModel ELSE "selectedModel",
        effectiveTaskType |->
          IF prompt # "ultrathink fix" /\ taskModels.useTaskBasedSwitching
          THEN "detected" ELSE None,
        systemPromptSuffix |-> <<>>]

\* fn: where the handler of the turn is; prompt: req.prompt; chat: the row
\* findFirst returned at the start of the turn; chatState: the row
\* getChatState returned after the workflow command; selection: the outcome
\* of the model selection; monitor: the monitor constructed for the stream
NoSetup ==
  [fn |-> None, prompt |-> None, chat |-> <<>>, chatState |-> <<>>,
   routerClassification |-> None, taskModels |-> <<>>,
   selection |-> <<>>, monitor |-> <<>>]

\* the conversation's row as earlier turns can have left it
SetupInit ==
  /\ settings = IdleSettings
  /\ activeStreams = [c \in ChatIds |-> 0]
  /\ partialResponses = [c \in ChatIds |-> <<>>]
  /\ ctrls = <<>>
  /\ turn = IdleTurn
  /\ stream = NoStream
  /\ db = <<>>
  /\ sent = [c \in ChatIds |-> [chunk |-> <<>>, end |-> 0, error |-> 0]]
  /\ hist = [cancels |-> 0, userCancel |-> None, mainStreams |-> 0,
             monitorAborts |-> <<>>, streamingReports |-> {},
             modelError |-> FALSE, failures |-> 0]
  /\ mon = NoMonitorUse
  /\ conc = NoInvocations
  /\ \/ \E exists \in BOOLEAN : wf = IdleWorkflow(exists)
     \/ \E i \in 1..Len(WORKFLOW_STEPS) :
          wf = [IdleWorkflow(TRUE) EXCEPT !.status = "active",
                                          !.step = WORKFLOW_STEPS[i]]
  /\ chunks = NoChunks
  /\ call = NoSetup

SetupFrame ==
  <<settings, activeStreams, partialResponses, ctrls, turn, stream, db,
    sent, hist, mon, conc, chunks>>

\* chat:stream up to the row of the conversation: findFirst returns it, or
\* the handler throws "Chat not found"
LoadChat(prompt) ==
  /\ call.fn = None
  /\ call' = [call EXCEPT
                !.fn = IF wf.exists THEN "loaded" ELSE "catch",
                !.prompt = prompt,
                !.chat = IF wf.exists THEN <<wf.status, wf.step>>
                         ELSE <<"missing">>]
  /\ UNCHANGED <<wf, SetupFrame>>

\* the workflow command of the prompt, if it is one
WorkflowCommand ==
  /\ call.fn = "loaded"
  /\ call' = [call EXCEPT !.fn = "commanded"]
  /\ wf' = CASE call.prompt = "/workflow stop" ->
                  Logged(UpdateChat("idle", None), "stop")
             [] call.prompt = "/workflow" ->
                  Logged(UpdateChat("active", "planning"), "start")
             [] call.prompt = "/next" ->
                  LET result == advanceStep(<<wf.status, wf.step>>)
                  IN Logged(UpdateChat(result.status, result.step),
                            result.ret)
             [] OTHER -> wf
  /\ UNCHANGED SetupFrame

\* const chatState = await WorkflowManager.getChatState(req.chatId)
FetchChatState ==
  /\ call.fn = "commanded"
  /\ call' = [call EXCEPT !.fn = "fetched",
                          !.chatState = <<wf.status, wf.step>>]
  /\ UNCHANGED <<wf, SetupFrame>>

\* the router has classified the prompt (or not) and the model is selected
SelectModel(routerClassification, taskModels, ultrathinkModel) ==
  /\ call.fn = "fetched"
  /\ call' = [call EXCEPT
                !.fn = "selected",
                !.routerClassification = routerClassification,
                !.taskModels = taskModels,
                !.selection = selectModel(call.chatState,
                                          routerClassification, taskModels,
                                          ultrathinkModel, call.prompt)]
  /\ UNCHANGED <<wf, SetupFrame>>

\* the monitor of the stream is constructed for the first pass of the
\* correction loop
ConstructMonitor(monitoring) ==
  /\ call.fn = "selected"
  /\ call' = [call EXCEPT
                !.fn = "streaming",
                !.monitor =
                  CASE monitoring = "fast" ->
                         <<NewFastMonitor(settings.selectedChatMode,
                                          call.chat[2])>>
                    [] monitoring = "realtime" ->
                         <<NewStreamingMonitor(settings.selectedChatMode,
                                               call.chat[2], FALSE)>>
                    [] OTHER -> <<>>]
  /\ UNCHANGED <<wf, SetupFrame>>

SetupNext ==
  \/ \E prompt \in Prompts : LoadChat(prompt)
  \/ WorkflowCommand
  \/ FetchChatState
  \/ \E routerClassification \in RouterClassifications,
        taskModels \in TaskModelsSpace,
        ultrathinkModel \in {None, "ultrathinkModel"} :
       SelectModel(routerClassification, taskModels, ultrathinkModel)
  \/ \E monitoring \in Monitorings : ConstructMonitor(monitoring)

SetupSpec == SetupInit /\ [][SetupNext]_vars

\* ------------------------------- specification of the reasoning-delta events
ReasoningInit ==
  /\ settings = IdleSettings
  /\ activeStreams = [c \in ChatIds |-> 0]
  /\ partialResponses = [c \in ChatIds |-> <<>>]
  /\ ctrls = <<>>
  /\ turn = IdleTurn
  /\ stream = NoStream
  /\ db = <<>>
  /\ sent = [c \in ChatIds |-> [chunk |-> <<>>, end |-> 0, error |-> 0]]
  /\ hist = [cancels |-> 0, userCancel |-> None, mainStreams |-> 0,
             monitorAborts |-> <<>>, streamingReports |-> {},
             modelError |-> FALSE, failures |-> 0]
  /\ mon = NoMonitorUse
  /\ conc = NoInvocations
  /\ wf = IdleWorkflow(TRUE)
  /\ chunks = NoChunks
  /\ call = NoCall

ReasoningFrame ==
  <<settings, activeStreams, partialResponses, ctrls, turn, stream, db,
    sent, hist, mon, conc, wf, call>>

\* one reasoning-delta event: "<think>" opens the block on the first one,
\* the escaped text of the event is appended
ReasoningDelta(text) ==
  /\ chunks.deltas < MaxDeltas
  /\ chunks' =
       [fullResponse |->
          chunks.fullResponse
            \o (IF chunks.inThinkingBlock THEN <<>> ELSE <<"<think>">>)
            \o escapeDyadTags(text),
        inThinkingBlock |-> TRUE,
        deltas |-> chunks.deltas + 1]
  /\ UNCHANGED ReasoningFrame

\* an event of a type the loop has no branch for (text-start, start-step)
\* while in the thinking block closes the block
ReasoningEnds ==
  /\ chunks.inThinkingBlock
  /\ chunks' = [chunks EXCEPT !.fullResponse = @ \o <<"</think>">>,
                              !.inThinkingBlock = FALSE]
  /\ UNCHANGED ReasoningFrame

ReasoningNext ==
  \/ \E n \in 1..MaxPieces : \E text \in [1..n -> Pieces] :
       ReasoningDelta(text)
  \/ ReasoningEnds

ReasoningSpec == ReasoningInit /\ [][ReasoningNext]_vars

\* ------------------------------------ stream events of every type, mixed
\* the events a stream can deliver: a text delta ("txt"), a reasoning delta,
\* a tool call and a tool result (their blocks "mcpCall" and "mcpResult",
\* or, skip, a Codex exec call or trivial command that adds nothing), a
\* finish event with or without grounding sources ("sources"), and an
\* event of a type the loop has no branch for
StreamParts ==
  {[type |-> "text-delta", text |-> <<"txt">>, skip |-> FALSE]}
  \cup {[type |-> "reasoning-delta", text |-> text, skip |-> FALSE] :
          text \in [1..1 -> Pieces] \cup [1..2 -> Pieces]}
  \cup {[type |-> "tool-call", text |-> <<"mcpCall">>, skip |-> skip] :
          skip \in BOOLEAN}
  \cup {[type |-> "tool-result", text |-> <<"mcpResult">>, skip |-> skip] :
          skip \in BOOLEAN}
  \cup {[type |-> "finish", text |-> text, skip |-> FALSE] :
          text \in {<<>>, <<"sources">>}}
  \cup {[type |-> "text-start", text |-> <<>>, skip |-> FALSE]}

\* one iteration of the for-await loop of processStreamChunks
ProcessPart(part) ==
  /\ chunks.deltas < MaxDeltas
  /\ LET closes ==
           /\ chunks.inThinkingBlock
           /\ part.type \notin
                {"reasoning-delta", "reasoning-end", "reasoning-start"}
         closing == IF closes THEN <<"</think>">> ELSE <<>>
         inThinkingBlock == chunks.inThinkingBlock /\ ~closes
         chunk ==
           CASE part.type = "text-delta" -> closing \o part.text
             [] part.type = "reasoning-delta" ->
                  (IF inThinkingBlock THEN <<>> ELSE <<"<think>">>)
                    \o escapeDyadTags(part.text)
             [] part.type \in {"tool-call", "tool-result"} ->
                  IF part.skip THEN <<>> ELSE part.text
             [] part.type = "finish" -> part.text
             [] OTHER -> closing
     IN chunks' =
          [fullResponse |-> chunks.fullResponse \o chunk,
           inThinkingBlock |->
             part.type = "reasoning-delta" \/ inThinkingBlock,
           deltas |-> chunks.deltas + 1]
  /\ UNCHANGED ReasoningFrame

EventsNext == \E part \in StreamParts : ProcessPart(part)

EventsSpec == ReasoningInit /\ [][EventsNext]_vars

\* ------------------------------------------------------------- properties
Terminal == sent[ReqChatId].end + sent[ReqChatId].error

Restarts == hist.mainStreams - 1

\* the correction loop was left with a correction still asked for
LeftWithCorrection ==
  /\ turn.pc \notin {"idle", "open", "stream", "update", "exit", "catch",
                     "cancelSave"}
  /\ AbortedForCorrection

\* C1: the correction loop restarts the primary stream at most
\* MAX_CORRECTION_ATTEMPTS times whatever the model does, and when it is
\* left because a monitor aborted once more, it has restarted the stream
\* exactly MAX_CORRECTION_ATTEMPTS times.
C1_RestartsBounded ==
  /\ turn.correctionAttempts <= MAX_CORRECTION_ATTEMPTS
  /\ hist.mainStreams <= MAX_CORRECTION_ATTEMPTS + 1
  /\ LeftWithCorrection =>
       /\ Restarts = MAX_CORRECTION_ATTEMPTS
       /\ turn.correctionAttempts = MAX_CORRECTION_ATTEMPTS

\* C1 witness: every primary stream of the turn was aborted by the monitor
\* and the loop was left after MAX_CORRECTION_ATTEMPTS restarts
C1_BudgetUsedUp ==
  /\ turn.pc = "afterCorrection"
  /\ AbortedForCorrection
  /\ Len(hist.monitorAborts) = hist.mainStreams
  /\ Restarts = MAX_CORRECTION_ATTEMPTS

\* C2: when the correction budget is exhausted and the turn has returned,
\* the full response accumulated so far is the persisted assistant message
\* and the turn was finalized with its end event.
C2_ExhaustedResponseSurfaced ==
  (/\ turn.pc = "done"
   /\ AbortedForCorrection
   /\ turn.correctionAttempts = MAX_CORRECTION_ATTEMPTS
   /\ hist.cancels = 0)
  => /\ db = turn.fullResponse
     /\ sent[ReqChatId].end = 1

\* C3: a step that uses one correction attempt appends the assistant
\* message with the response so far and then the system message with the
\* correction, installs a fresh controller registered in activeStreams, and
\* the stream opened next is called with the augmented context (its
\* messages that have content).
C3_ResumeWithCorrection ==
  [][/\ turn'.correctionAttempts # turn.correctionAttempts =>
          /\ turn'.correctionAttempts = turn.correctionAttempts + 1
          /\ Aborted /\ Signal.correctionNeeded # <<>>
          /\ turn'.chatMessages =
               turn.chatMessages
               \o <<[role |-> "assistant", content |-> turn.fullResponse],
                    [role |-> "system",
                     content |-> Signal.correctionNeeded]>>
          /\ turn'.abortController # turn.abortController
          /\ ~ctrls'[turn'.abortController].aborted
          /\ ctrls'[turn'.abortController].correctionNeeded = <<>>
          /\ activeStreams'[ReqChatId] = turn'.abortController
          /\ turn'.pc = "open"
     /\ (turn.pc = "open" /\ turn.phase = "main" /\ turn'.pc = "stream") =>
          stream'.ctx =
            SelectSeq(turn.chatMessages, LAMBDA m : m.content # <<>>)]_vars

\* C3 witness: a restarted stream is being consumed whose context ends
\* with the response so far and the correction
C3_RestartedStream ==
  /\ turn.pc = "stream" /\ turn.phase = "main"
  /\ turn.correctionAttempts = 1
  /\ Len(stream.ctx) >= 2
  /\ stream.ctx[Len(stream.ctx)].role = "system"
  /\ stream.ctx[Len(stream.ctx) - 1] =
       [role |-> "assistant", content |-> turn.fullResponse]
  /\ ~Aborted

\* number of calls since the last reset() that reported the kind
Reports(kind) ==
  Cardinality({i \in 1..Len(mon.log) : mon.log[i] = kind})

\* every call since the last reset() reported a violation, each a
\* different kind
AllCallsReportedAnotherKind ==
  \A i \in 1..Len(mon.log) :
    /\ mon.log[i] # None
    /\ \A j \in 1..Len(mon.log) : j # i => mon.log[j] # mon.log[i]

\* C4 (as amended): a kind contained in every text a monitor instance has
\* analysed since its last reset() is reported by at most one of the calls;
\* as long as no call has reported it, every call has reported another
\* kind, each a different one.
C4_ReportedOnceUntilReset ==
  \A kind \in mon.always :
    /\ Reports(kind) <= 1
    /\ Reports(kind) = 0 => AllCallsReportedAnotherKind

\* C4 witness: a kind reported before reset() was contained in every text
\* analysed after it and has been reported once more
C4_ReportedAgainAfterReset ==
  \E kind \in mon.always \cap mon.before :
    /\ mon.resets = 1
    /\ Len(mon.log) >= 2
    /\ Reports(kind) = 1

\* C4 (as stated): a kind contained in every text the instance has
\* analysed is reported by exactly one of the calls.
C4_ReportedExactlyOnce ==
  \A kind \in mon.always : Len(mon.log) >= 1 => Reports(kind) = 1

\* C5: within one turn no violation kind triggers an abort for correction
\* twice.
C5_OneAbortPerKind ==
  \A i, j \in 1..Len(hist.monitorAborts) :
    i # j => hist.monitorAborts[i] # hist.monitorAborts[j]

\* C6: once the monitor of the turn, of either class, has reported a new
\* violation, the stream is aborted for correction or has been restarted.
C6_EitherMonitorAborts ==
  (hist.monitorAborts # <<>> \/ hist.streamingReports # {})
  => (turn.correctionAttempts > 0 \/ AbortedForCorrection)

\* C7: a turn cancelled by the user while its stream was in flight, with
\* some response received, returns the chat id without an error event, and
\* the persisted assistant message is the response received so far followed
\* by the annotation.
C7_CancelledTurnAnnotated ==
  (/\ turn.pc = "done"
   /\ hist.userCancel = "streaming"
   /\ turn.fullResponse # <<>>)
  => /\ turn.retval = "chatId"
     /\ sent[ReqChatId].error = 0
     /\ db = Append(turn.fullResponse, "cancelled")

\* C8: after chat:cancel was handled between a monitor's abort and the
\* restart, the turn uses no further correction attempt: no new stream is
\* started.
C8_CancelStopsRestart ==
  [][hist.userCancel = "aborted" =>
       /\ turn'.correctionAttempts = turn.correctionAttempts
       /\ hist'.mainStreams = hist.mainStreams]_vars

\* C9: a turn that has returned has emitted exactly one terminal event, an
\* end or an error, for its conversation.
C9_OneTerminalEvent == turn.pc = "done" => Terminal = 1

\* C10: a turn in which a model invocation failed while the cancellation
\* signal was not set returns "error", has emitted the error event and has
\* removed the entry of the conversation from activeStreams.
C10_ModelFailureTerminal ==
  (turn.pc = "done" /\ hist.modelError /\ hist.cancels = 0)
  => /\ turn.retval = "error"
     /\ sent[ReqChatId].error >= 1
     /\ activeStreams[ReqChatId] = 0

\* C11: while the signal of the turn is set and the handler waits for the
\* next event of a stream, no step appends to the accumulated response,
\* stores a partial response or starts a snapshot write.
C11_NoTextAfterAbort ==
  [][(turn.pc = "stream" /\ Aborted) =>
       /\ turn'.fullResponse = turn.fullResponse
       /\ partialResponses' = partialResponses
       /\ turn'.pc # "update"]_vars

\* the stream of an invocation is in flight: it is being consumed, it has
\* not failed and its signal is not set
InFlight(t) ==
  /\ Inv(t).pc \in {"stream", "update"}
  /\ ~Inv(t).errored
  /\ ~InvAborted(t)

\* C12: no two streams of one conversation are in flight together, and the
\* controller of a stream in flight is the one registered in activeStreams
\* for its conversation.
C12_OneStreamPerConversation ==
  \A t \in TurnIds :
    InFlight(t) =>
      /\ activeStreams[Inv(t).chatId] = Inv(t).abortController
      /\ \A u \in TurnIds \ {t} :
           InFlight(u) => Inv(u).chatId # Inv(t).chatId

\* C13: a step that handles a turn or a cancel of one conversation leaves
\* the activeStreams and partialResponses entries of every other
\* conversation as they were, and does not change the controller
\* registered for, or used by a turn of, another conversation.
C13_OtherConversationsUntouched ==
  [][\A b \in ChatIds :
       b # conc'.handled =>
         /\ activeStreams'[b] = activeStreams[b]
         /\ partialResponses'[b] = partialResponses[b]
         /\ activeStreams[b] # 0 =>
              ctrls'[activeStreams[b]] = ctrls[activeStreams[b]]
         /\ \A t \in TurnIds :
              (Inv(t).chatId = b /\ Inv(t).abortController # 0) =>
                ctrls'[Inv(t).abortController] =
                  ctrls[Inv(t).abortController]]_vars

\* C13 witness: a cancel of one conversation has aborted its turn while a
\* turn of the other conversation, started earlier, is still streaming with
\* its partial response stored
C13_CancelBesideRunningTurn ==
  \E t, u \in TurnIds :
    /\ conc.handled = Inv(t).chatId
    /\ conc.cancels = 1
    /\ Inv(t).pc = "stream" /\ InvAborted(t)
    /\ Inv(u).chatId \notin {0, Inv(t).chatId}
    /\ InFlight(u)
    /\ activeStreams[Inv(u).chatId] = Inv(u).abortController
    /\ partialResponses[Inv(u).chatId] # <<>>

\* C14: on an existing conversation whose first call is startWorkflow, the
\* workflow is active at step planning after that call; the advanceStep
\* calls that follow it directly return docs, frontend, backend, testing and
\* null in this order, and after the fifth the workflow is idle with no step.
AdvanceReturns == <<"docs", "frontend", "backend", "testing", None>>

OnlyAdvancesAfterStart(k) ==
  /\ wf.exists
  /\ k <= Len(wf.log)
  /\ wf.log[1] = "start"
  /\ \A j \in 2..k : wf.log[j] \notin {"start", "stop", "force"}

C14_FiveAdvances ==
  /\ OnlyAdvancesAfterStart(1) /\ Len(wf.log) = 1
       => wf.status = "active" /\ wf.step = "planning"
  /\ \A k \in 2..(Len(AdvanceReturns) + 1) :
       OnlyAdvancesAfterStart(k) => wf.log[k] = AdvanceReturns[k - 1]
  /\ OnlyAdvancesAfterStart(Len(AdvanceReturns) + 1)
       /\ Len(wf.log) = Len(AdvanceReturns) + 1
       => wf.status = "idle" /\ wf.step = None

C14_WorkflowRanThrough ==
  /\ OnlyAdvancesAfterStart(Len(AdvanceReturns) + 1)
  /\ Len(wf.log) = Len(AdvanceReturns) + 1
  /\ wf.chat = <<>>

\* C15: after any sequence of startWorkflow, advanceStep, forceStep and
\* stopWorkflow calls made one after another on a conversation that started
\* idle, the persisted step is non-null exactly when the status is active,
\* and a non-null step is one of the five workflow steps.
C15_StepIffActive ==
  /\ (wf.step # None) <=> (wf.status = "active")
  /\ wf.step # None => IndexOf(wf.step) # 0

C15_MixedCalls ==
  /\ wf.exists
  /\ wf.chat = <<>>
  /\ \A op \in {"start", "stop", "force"} :
       \E i \in 1..Len(wf.log) : wf.log[i] = op
  /\ \E i \in 1..Len(wf.log) : wf.log[i] \in {"docs", "backend", None}
  /\ wf.status = "active"
  /\ wf.step = "testing"

\* C16: an advanceStep call that reads a missing conversation, or one whose
\* workflow is idle, returns null and leaves the persisted status and step
\* as they are.
C16_IdleAdvanceIsNoOp ==
  [][(wf.chat # <<>> /\ wf'.chat = <<>>
        /\ (wf.chat = <<"missing">> \/ wf.chat[1] = "idle"))
      => /\ wf'.log = Append(wf.log, None)
         /\ wf'.status = wf.status
         /\ wf'.step = wf.step]_vars

C16_IdleAdvanceReturnedNull ==
  /\ wf.exists
  /\ wf.chat = <<>>
  /\ Len(wf.log) >= 3
  /\ wf.log[Len(wf.log) - 1] = "stop"
  /\ wf.log[Len(wf.log)] = None
  /\ wf.status = "idle"

\* C17: after any sequence of reasoning deltas, however the text is split
\* across the deltas, the accumulated response contains neither "<dyad" nor
\* "</dyad".
C17_NoDirectiveInReasoning ==
  \A i \in 1..Len(chunks.fullResponse) :
    /\ ~HasPrefixAt(chunks.fullResponse, i, OpenPrefix)
    /\ ~HasPrefixAt(chunks.fullResponse, i, ClosePrefix)

\* C18: the continuation loop is entered only after the main stream has
\* ended with the signal not set, in a mode other than ask, with an
\* unterminated write tag in the buffer; every continuation stream is
\* requested while the tag is still open and the signal not set, there are
\* at most 2 of them, each is given the partial buffer as its last
\* assistant message; an event that is not a text-delta leaves the buffer
\* as it is, and nothing is appended once the signal is set.
InContinuation == turn.phase = "cont"

C19_AutoFixLoop ==
  [][/\ (turn.pc = "afterCont" /\ turn'.pc = "report") =>
          /\ ~Aborted
          /\ ~Has(turn.fullResponse, "dep")
          /\ settings.enableAutoFixProblems
          /\ settings.selectedChatMode # "ask"
     /\ (turn.pc = "report" /\ turn'.pc = "open") =>
          /\ turn'.phase = "fix"
          /\ turn'.problems > 0
          /\ ~Aborted
          /\ turn'.autoFixAttempts <= MAX_AUTO_FIX_ATTEMPTS
     /\ turn'.phase = "fix" => turn.pc = "report" \/ turn.phase = "fix"
     /\ (turn.phase = "fix" /\ turn.pc = "exit") =>
          turn'.pc = "report" /\ turn'.reportOf = turn.fullResponse
     /\ (turn.pc = "report" /\ turn'.pc # "report"
           /\ (turn'.problems = 0 \/ Aborted)) =>
          turn'.pc = "final"]_vars

C19_SecondRoundFixedIt ==
  /\ turn.pc = "done"
  /\ turn.autoFixAttempts = MAX_AUTO_FIX_ATTEMPTS
  /\ turn.problems = 0
  /\ Len(turn.previousAttempts) = 2 * MAX_AUTO_FIX_ATTEMPTS
  /\ ~Aborted

\* C20: when the turn is done after 2 fix rounds and the last report still
\* has problems, the final response, as saved, holds the report block of
\* those problems, and the handler has returned normally after sending the
\* end event (no model call failed).
C20_RemainingProblemsReported ==
  (/\ turn.pc = "done"
   /\ turn.autoFixAttempts = MAX_AUTO_FIX_ATTEMPTS
   /\ Len(turn.previousAttempts) = 2 * MAX_AUTO_FIX_ATTEMPTS
   /\ turn.problems > 0
   /\ ~Aborted
   /\ ~hist.modelError) =>
     /\ Has(turn.fullResponse, ReportBlocks[turn.problems])
     /\ db = turn.fullResponse
     /\ turn.retval = "chatId"
     /\ sent[ReqChatId].end >= 1

\* C23: the last checkChunk call on a FastMonitor has reported the first
\* kind, in the order markup block, prohibited tool, planning, docs, agent,
\* that its text contains and the calls before it (since the last reset)
\* have not reported, with shouldAbort true and the canned correction of
\* that kind; the kinds marked seen are exactly the kinds reported; a call
\* whose text holds no new kind has reported no violation.
C23_FirstNewKindWins ==
  (mon.obj.class = "FastMonitor" /\ mon.log # <<>>) =>
    LET reported == mon.log[Len(mon.log)]
        seen == {mon.log[i] : i \in 1..(Len(mon.log) - 1)} \ {None}
        result == checkChunk([mon.obj EXCEPT !.detected = seen], mon.text)
        new == {i \in 1..Len(FastKinds) :
                  /\ FastKinds[i] \notin seen
                  /\ Contains(mon.obj, mon.text, FastKinds[i])}
    IN /\ result.violationType = reported
       /\ IF new = {}
          THEN /\ ~result.hasViolation
               /\ reported = None
               /\ mon.obj.detected = seen
          ELSE LET kind == FastKinds[CHOOSE i \in new : \A j \in new : i <= j]
               IN /\ result.hasViolation
                  /\ reported = kind
                  /\ result.shouldAbort
                  /\ result.correction = CACHED_CORRECTIONS(kind)
                  /\ mon.obj.detected = seen \cup {kind}

C23_ToolReportedAfterMarkup ==
  /\ mon.obj.class = "FastMonitor"
  /\ mon.obj.mode = "agent"
  /\ mon.pending = <<>>
  /\ Len(mon.text) = 4
  /\ SubSeq(mon.text, 1, 2) = <<"fence", "tool">>
  /\ mon.log = <<"markdown_code_block", "codex_cli_tool", None>>
  /\ mon.resets = 0

\* C22: an awaited analyzeChunk call always resolves; when it found a new
\* kind and resolved with no correction (the router-model call failed or
\* gave no text) the violation is still reported and the correction
\* callback is not invoked; the callback is invoked only with the
\* correction the call resolved with.
C22_RouterFailureContained ==
  [][mon'.calls = mon.calls + 1 =>
       /\ mon'.settled = "resolved"
       /\ mon'.log[Len(mon'.log)] # None =>
            mon'.log[Len(mon'.log)] \in mon'.obj.detected
       /\ mon'.correction = <<>> => mon'.callbacks = mon.callbacks
       /\ mon'.callbacks # mon.callbacks =>
            /\ mon.obj.hasCallback
            /\ mon'.callbacks = Append(mon.callbacks, mon'.correction)]_vars

C22_FailedThenCorrected ==
  /\ mon.obj.hasCallback
  /\ Len(mon.log) = 2
  /\ mon.log[1] # None /\ mon.log[2] # None
  /\ mon.settled = "resolved"
  /\ mon.callbacks = <<mon.correction>>
  /\ mon.resets = 0

\* C30: a snapshot write is started only for a chunk that comes at least
\* 150 ms after the time of the last snapshot write of the turn, so two
\* consecutive writes are at least 150 ms apart, and a chunk that comes
\* sooner writes nothing; every chunk appended to the response is stored
\* in partialResponses in the same step and sent in a chunk event, at once
\* or when its snapshot write has completed.
C30_SnapshotsThrottled ==
  [][/\ (turn.pc = "stream" /\ turn'.fullResponse # turn.fullResponse) =>
          /\ partialResponses'[ReqChatId] = turn'.fullResponse
          /\ IF turn'.now - turn.lastDbSaveAt >= DB_SAVE_INTERVAL_MS
             THEN turn'.pc = "update"
             ELSE /\ turn'.pc # "update"
                  /\ db' = db
                  /\ sent'[ReqChatId].chunk = <<turn'.fullResponse>>
     /\ (turn.pc = "update" /\ turn'.pc # "update") =>
          /\ db' = turn.fullResponse
          /\ turn'.lastDbSaveAt - turn.lastDbSaveAt >= DB_SAVE_INTERVAL_MS
          /\ sent'[ReqChatId].chunk = <<turn.fullResponse>>]_vars

C30_SecondSnapshotWritten ==
  /\ turn.pc = "stream"
  /\ turn.lastDbSaveAt = EpochMs + DB_SAVE_INTERVAL_MS
  /\ Len(turn.fullResponse) = 2
  /\ db = turn.fullResponse

\* --------------------------------------------------------- response_validator
\* number of occurrences of the tokens toks in text
Count(text, toks) == Cardinality({i \in 1..Len(text) : text[i] \in toks})

\* a ValidationViolation; every violation the checks build is critical
Critical(type, context) ==
  [type |-> type, severity |-> "critical", context |-> context]

\* one violation per block from a fence to the next fence
detectMarkdownCodeBlocks(text) ==
  [i \in 1..(Count(text, {"fence", "fenceSp"}) \div 2) |->
     Critical("code_block", "fence")]

\* one violation per prohibited tool name the text mentions
detectCodexCliTools(text) ==
  LET Mentioned(tool) == Has(text, tool)
      found == SelectSeq(<<"tool", "wfile">>, Mentioned)
  IN [i \in 1..Len(found) |-> Critical("codex_tool", found[i])]

validateDyadTagStructure_moreOpen(text) ==
  IF Count(text, WriteOpenTokens) > Count(text, {"close"})
  THEN <<Critical("malformed_tag", "count")>>
  ELSE <<>>

\* openMatches.length !== closeMatches.length
validateDyadTagStructure(text) ==
  IF Count(text, WriteOpenTokens) # Count(text, {"close"})
  THEN <<Critical("malformed_tag", "count")>>
  ELSE <<>>

\* the matches of writeTagRegex from position from on, each as
\* <<index of the opening tag, index of the closing tag>>: the
\* first opening tag, the first closing tag after it, then on from there
RECURSIVE WriteTagMatches(_, _)
WriteTagMatches(text, from) ==
  LET opens == {i \in from..Len(text) : text[i] \in WriteOpenTokens}
  IN IF opens = {} THEN <<>>
     ELSE LET o == CHOOSE i \in opens : \A j \in opens : i <= j
              closes == {i \in o..Len(text) : text[i] = "close"}
          IN IF closes = {} THEN <<>>
             ELSE LET c == CHOOSE i \in closes : \A j \in closes : i <= j
                  IN <<<<o, c>>>> \o WriteTagMatches(text, c + 1)

\* one violation per write tag whose content has a prohibited line
detectProhibitedInstructions(text) ==
  LET matches == WriteTagMatches(text, 1)
      Prohibited(m) == Has(SubSeq(text, m[1] + 1, m[2] - 1), "summary")
      bad == SelectSeq(matches, Prohibited)
  IN [i \in 1..Len(bad) |-> Critical("prohibited_content", "summary")]

validateModeCompliance_writesOnly(text, mode, workflowStep) ==
  LET One(cond, context) ==
        IF cond /\ IncludesDyadWrite(text)
        THEN <<Critical("mode_violation", context)>> ELSE <<>>
      Disallowed(tok) == tok \in {"open", "openNote"}
      paths == SelectSeq(text, Disallowed)
  IN One(workflowStep = "planning", "planning")
     \o (IF workflowStep = "docs"
         THEN [i \in 1..Len(paths) |-> Critical("mode_violation", paths[i])]
         ELSE <<>>)
     \o One(mode = "agent", "agent")
     \o One(mode = "ask", "ask")

\* validateModeCompliance(response, {mode, workflowStep}); in the docs step
\* the loop over the write tags pushes one violation per path with
\* !isMarkdown || !isDocsFolder, its context being the path
validateModeCompliance(text, mode, workflowStep) ==
  LET hasAnyDyadTag ==
        HasAny(text, WriteOpenTokens \cup {"delete", "rename", "dep"})
      One(cond, context) ==
        IF cond /\ hasAnyDyadTag
        THEN <<Critical("mode_violation", context)>> ELSE <<>>
      isMarkdown(tag) == tag \in {"openMd", "openNote"}
      isDocsFolder(tag) == tag = "openMd"
      Disallowed(tok) ==
        tok \in WriteOpenTokens /\ (~isMarkdown(tok) \/ ~isDocsFolder(tok))
      paths == SelectSeq(text, Disallowed)
  IN One(workflowStep = "planning", "planning")
     \o (IF workflowStep = "docs"
         THEN [i \in 1..Len(paths) |-> Critical("mode_violation", paths[i])]
         ELSE <<>>)
     \o One(mode = "agent", "agent")
     \o One(mode = "ask", "ask")

validateResponse_modeOnly(text, mode, workflowStep) ==
  LET IsCritical(v) == v.severity = "critical"
      IsWarning(v) == v.severity = "warning"
      all == validateModeCompliance(text, mode, workflowStep)
  IN [isValid |-> Len(SelectSeq(all, IsCritical)) = 0,
      violations |-> SelectSeq(all, IsCritical),
      warnings |-> SelectSeq(all, IsWarning)]

\* validateResponse(response, context)
validateResponse(text, mode, workflowStep) ==
  LET IsCritical(v) == v.severity = "critical"
      IsWarning(v) == v.severity = "warning"
      all ==
        detectMarkdownCodeBlocks(text) \o detectCodexCliTools(text)
          \o validateDyadTagStructure(text)
          \o detectProhibitedInstructions(text)
          \o validateModeCompliance(text, mode, workflowStep)
  IN [isValid |-> Len(SelectSeq(all, IsCritical)) = 0,
      violations |-> SelectSeq(all, IsCritical),
      warnings |-> SelectSeq(all, IsWarning)]

getDyadWriteTags_toLastClose(text) ==
  LET opens == {i \in 1..Len(text) : text[i] \in WriteOpenTokens}
      closes == {i \in 1..Len(text) : text[i] = "close"}
  IN IF opens = {} \/ closes = {} THEN <<>>
     ELSE LET o == CHOOSE i \in opens : \A j \in opens : i <= j
              c == CHOOSE i \in closes : \A j \in closes : j <= i
          IN IF c < o THEN <<>>
             ELSE <<[path |-> text[o], content |-> SubSeq(text, o + 1, c - 1)]>>

\* getDyadWriteTags(fullResponse): the write directives of the text in
\* document order, each an opening tag up to its closing tag, the content
\* being everything between the two
getDyadWriteTags(text) ==
  LET matches == WriteTagMatches(text, 1)
  IN [i \in 1..Len(matches) |->
        [path |-> text[matches[i][1]],
         content |-> SubSeq(text, matches[i][1] + 1, matches[i][2] - 1)]]

\* ------------------------------------------------------------ corrective_agent
\* The router model's reply is a sequence of "txt" (prose), "sp" (white
\* space), "ciOpen" (<corrective-instruction>) and "ciClose"
\* (</corrective-instruction>); router.ok is FALSE when getModelClient,
\* streamText or the text stream throws an Error.
RetryWith(prompt) ==
  [settled |-> "resolved", shouldRetry |-> TRUE, prompt |-> prompt,
   reason |-> None]

NoRetry(reason) ==
  [settled |-> "resolved", shouldRetry |-> FALSE, prompt |-> None,
   reason |-> reason]

attemptCorrection_wholeReply(router) ==
  IF ~router.ok THEN NoRetry("Correction failed")
  ELSE RetryWith(SelectSeq(router.text, LAMBDA t : t # "sp"))

\* attemptCorrection(params), given what the router model call does
attemptCorrection(router) ==
  IF ~router.ok THEN NoRetry("Correction failed")
  ELSE
    LET reply == router.text
        opens == {i \in 1..Len(reply) : reply[i] = "ciOpen"}
        o == IF opens = {} THEN 0
             ELSE CHOOSE i \in opens : \A j \in opens : i <= j
        closes == {i \in (o + 1)..Len(reply) : reply[i] = "ciClose"}
        c == IF closes = {} THEN 0
             ELSE CHOOSE i \in closes : \A j \in closes : i <= j
        inner == SubSeq(reply, o + 1, c - 1)
        kept == {i \in 1..Len(inner) : inner[i] # "sp"}
        trimmed ==
          IF kept = {} THEN <<>>
          ELSE SubSeq(inner, CHOOSE i \in kept : \A j \in kept : i <= j,
                             CHOOSE i \in kept : \A j \in kept : j <= i)
    IN IF o # 0 /\ c # 0 /\ inner # <<>>
       THEN RetryWith(trimmed)
       ELSE NoRetry("no tags found")

\* ------------------------------------------------- calls of the pure functions
\* all texts of at most n tokens over the alphabet toks
TextsUpTo(toks, n) == UNION {[1..k -> toks] : k \in 0..n}

ValidatorTokens ==
  {"txt", "summary", "fence", "tool", "open", "openMd", "openNote", "close",
   "delete", "rename", "dep"}

ParserTokens == {"txt", "summary", "open", "openMd", "close"}

ReplyTokens == {"txt", "sp", "ciOpen", "ciClose"}

ValidatorModes == {"build", "ask", "agent"}

ValidatorSteps == {None, "planning", "docs"}

\* the arguments of one call: a response with its validation context, or
\* the outcome of the router model call of one attemptCorrection
PureInit ==
  /\ settings = IdleSettings
  /\ activeStreams = [c \in ChatIds |-> 0]
  /\ partialResponses = [c \in ChatIds |-> <<>>]
  /\ ctrls = <<>>
  /\ turn = IdleTurn
  /\ stream = NoStream
  /\ db = <<>>
  /\ sent = [c \in ChatIds |-> [chunk |-> <<>>, end |-> 0, error |-> 0]]
  /\ hist = [cancels |-> 0, userCancel |-> None, mainStreams |-> 0,
             monitorAborts |-> <<>>, streamingReports |-> {},
             modelError |-> FALSE, failures |-> 0]
  /\ mon = NoMonitorUse
  /\ conc = NoInvocations
  /\ wf = IdleWorkflow(TRUE)
  /\ chunks = NoChunks
  /\ \/ \E text \in TextsUpTo(ValidatorTokens, MaxText),
           mode \in ValidatorModes, step \in ValidatorSteps :
          call = [NoCall EXCEPT !.text = text, !.mode = mode,
                                !.workflowStep = step]
     \/ \E text \in TextsUpTo(ParserTokens, MaxParsed) :
          call = [NoCall EXCEPT !.text = text]
     \/ \E reply \in TextsUpTo(ReplyTokens, MaxReply) :
          call = [NoCall EXCEPT !.of = "router",
                                !.reply = [ok |-> TRUE, text |-> reply]]
     \/ call = [NoCall EXCEPT !.of = "router"]

\* the function fn is called on the arguments and returns out; a second
\* call of the same function keeps the first result in prev
Returns(fn, out) ==
  /\ call.fn \in {None, fn}
  /\ call.prev = <<>>
  /\ call' = [call EXCEPT !.fn = fn, !.out = out,
                          !.prev = IF call.fn = fn THEN <<call.out>> ELSE <<>>]
  /\ UNCHANGED <<settings, activeStreams, partialResponses, ctrls, turn,
                 stream, db, sent, hist, mon, conc, wf, chunks>>

PureNext ==
  \/ call.of = "response"
       /\ Returns("validateDyadTagStructure",
                  validateDyadTagStructure(call.text))
  \/ call.of = "response"
       /\ Returns("validateModeCompliance",
                  validateModeCompliance(call.text, call.mode,
                                         call.workflowStep))
  \/ call.of = "response"
       /\ Returns("validateResponse",
                  validateResponse(call.text, call.mode, call.workflowStep))
  \/ call.of = "response"
       /\ Returns("checkChunk",
                  checkChunk(NewFastMonitor(call.mode, call.workflowStep),
                             call.text))
  \/ call.of = "response"
       /\ Returns("hasUnclosedDyadWrite", hasUnclosedDyadWrite(call.text))
  \/ call.of = "response"
       /\ Returns("getDyadWriteTags", getDyadWriteTags(call.text))
  \/ call.of = "router"
       /\ Returns("attemptCorrection", attemptCorrection(call.reply))

PureSpec == PureInit /\ [][PureNext]_vars

\* C26: validateDyadTagStructure returns exactly one violation, critical
\* and of type malformed_tag, when the text has a different number of
\* opening write tags than of closing write tags, and none when the two
\* numbers are equal.
C26_MismatchReportedOnce ==
  call.fn = "validateDyadTagStructure" =>
    LET opening == {i \in 1..Len(call.text) :
                      call.text[i] \in {"open", "openMd", "openNote"}}
        closing == {i \in 1..Len(call.text) : call.text[i] = "close"}
    IN IF Cardinality(opening) = Cardinality(closing)
       THEN call.out = <<>>
       ELSE /\ Len(call.out) = 1
            /\ call.out[1].type = "malformed_tag"
            /\ call.out[1].severity = "critical"

C26_ExtraClosingTagReported ==
  /\ call.fn = "validateDyadTagStructure"
  /\ call.text = <<"open", "close", "close">>
  /\ Len(call.out) = 1

\* C25: in mode ask, validateModeCompliance returns at least one violation,
\* all of them critical and of type mode_violation, for every text that has
\* a write, delete, rename or add-dependency tag, and none for a text that
\* has no such tag.
C25_AskForbidsDirectives ==
  (call.fn = "validateModeCompliance" /\ call.mode = "ask") =>
    /\ \A i \in 1..Len(call.out) :
         call.out[i].type = "mode_violation"
           /\ call.out[i].severity = "critical"
    /\ call.out # <<>> <=>
         \E i \in 1..Len(call.text) :
           call.text[i] \in
             {"open", "openMd", "openNote", "delete", "rename", "dep"}

C25_RenameInAskReported ==
  /\ call.fn = "validateModeCompliance"
  /\ call.mode = "ask"
  /\ call.workflowStep = None
  /\ call.text = <<"txt", "rename">>
  /\ Len(call.out) = 1

\* C24: in workflow step docs each write tag is checked by itself.
\* validateModeCompliance returns one mode violation for each write tag
\* whose path is not a .md file under docs/ (src/a.ts, notes.md), naming
\* that path, and none for a write to docs/a.md; a FastMonitor given a text
\* without markup block or tool name reports docs_non_markdown exactly when
\* the text has a write tag with such a path, whatever other write tags
\* the text has.
C24_EveryWriteChecked ==
  call.workflowStep = "docs" =>
    /\ call.fn = "validateModeCompliance" =>
         \A tag \in {"open", "openMd", "openNote"} :
           Cardinality({i \in 1..Len(call.out) : call.out[i].context = tag})
             = IF tag = "openMd" THEN 0
               ELSE Cardinality({i \in 1..Len(call.text) :
                                   call.text[i] = tag})
    /\ (call.fn = "checkChunk"
          /\ \A i \in 1..Len(call.text) :
               call.text[i] \notin {"fence", "tool"}) =>
         (call.out.violationType = "docs_non_markdown" <=>
            \E i \in 1..Len(call.text) :
              call.text[i] \in {"open", "openNote"})

\* C27: validateResponse returns isValid true exactly when none of the five
\* checks reports a critical violation of the text; its violations list
\* holds the critical violations of the five checks and nothing else, its
\* warnings list holds only warnings, and a result without critical
\* violations is valid.
C27_ValidIffNoCritical ==
  call.fn = "validateResponse" =>
    LET checks ==
          <<detectMarkdownCodeBlocks(call.text),
            detectCodexCliTools(call.text),
            validateDyadTagStructure(call.text),
            detectProhibitedInstructions(call.text),
            validateModeCompliance(call.text, call.mode, call.workflowStep)>>
        critical ==
          {<<k, i>> \in (1..5) \X (1..(2 * MaxParsed)) :
             i <= Len(checks[k]) /\ checks[k][i].severity = "critical"}
    IN /\ call.out.isValid <=> critical = {}
       /\ Len(call.out.violations) = Cardinality(critical)
       /\ \A i \in 1..Len(call.out.violations) :
            /\ call.out.violations[i].severity = "critical"
            /\ \E p \in critical : checks[p[1]][p[2]] = call.out.violations[i]
       /\ \A i \in 1..Len(call.out.warnings) :
            call.out.warnings[i].severity = "warning"
       /\ call.out.violations = <<>> => call.out.isValid

C27_ProhibitedContentRejected ==
  /\ call.fn = "validateResponse"
  /\ call.text = <<"open", "summary", "close">>
  /\ call.mode = "build"
  /\ ~call.out.isValid
  /\ Len(call.out.violations) = 1
  /\ call.out.violations[1].type = "prohibited_content"

\* C28: hasUnclosedDyadWrite returns true for every text that has an
\* opening write tag without its own closing tag (the next write tag after
\* it is not a closing tag), and false for every text in which each opening
\* write tag is followed by its closing tag, or that has no opening tag.
C28_UnclosedIffUnmatched ==
  call.fn = "hasUnclosedDyadWrite" =>
    LET T == call.text
        IsOpen(i) == T[i] \in {"open", "openMd", "openNote"}
        tags == {i \in 1..Len(T) : IsOpen(i) \/ T[i] = "close"}
        Closed(i) ==
          \E c \in tags :
            /\ c > i
            /\ T[c] = "close"
            /\ \A j \in tags : ~(i < j /\ j < c)
    IN call.out <=> \E i \in 1..Len(T) : IsOpen(i) /\ ~Closed(i)

C21_RetryOnlyWithInstruction ==
  call.fn = "attemptCorrection" =>
    LET R == call.reply.text
        pairs ==
          {p \in (1..Len(R)) \X (1..Len(R)) :
             /\ p[1] < p[2]
             /\ R[p[1]] = "ciOpen"
             /\ R[p[2]] = "ciClose"
             /\ \A j \in 1..(p[1] - 1) : R[j] # "ciOpen"
             /\ \A j \in (p[1] + 1)..(p[2] - 1) : R[j] # "ciClose"}
        TrimOf(inner, prompt) ==
          \E a \in 0..Len(inner), b \in 0..Len(inner) :
            /\ prompt = SubSeq(inner, a + 1, b)
            /\ \A j \in 1..a : inner[j] = "sp"
            /\ \A j \in (b + 1)..Len(inner) : inner[j] = "sp"
            /\ prompt # <<>> =>
                 prompt[1] # "sp" /\ prompt[Len(prompt)] # "sp"
    IN /\ call.out.settled = "resolved"
       /\ IF call.out.shouldRetry
          THEN /\ call.reply.ok
               /\ \E p \in pairs :
                    TrimOf(SubSeq(R, p[1] + 1, p[2] - 1), call.out.prompt)
          ELSE call.out.prompt = None /\ call.out.reason # None
       /\ (~call.reply.ok \/ pairs = {}) => ~call.out.shouldRetry

C21_InstructionExtracted ==
  /\ call.fn = "attemptCorrection"
  /\ call.reply = [ok |-> TRUE, text |-> <<"txt", "ciOpen", "sp", "txt">>
                                          \o <<"ciClose">>]
  /\ call.out.shouldRetry
  /\ call.out.prompt = <<"txt">>

\* C31: when advanceStep interleaves at its awaits with stopWorkflow,
\* startWorkflow or another advanceStep call on the same conversation, the
\* persisted step is non-null exactly when the persisted status is active.
C31_InvariantUnderInterleaving ==
  wf.exists => ((wf.step # None) <=> (wf.status = "active"))

\* C34: an advanceStep call that has read a row with status active and a
\* step that is not in the step list (null or an unknown value) writes
\* status active with step planning and returns planning.
C34_InvalidStepRecovered ==
  [][(/\ wf.chat # <<>>
      /\ wf'.chat = <<>>
      /\ wf.chat # <<"missing">>
      /\ wf.chat[1] = "active"
      /\ \A i \in 1..Len(WORKFLOW_STEPS) : WORKFLOW_STEPS[i] # wf.chat[2])
      => /\ wf'.log = Append(wf.log, "planning")
         /\ wf'.status = "active"
         /\ wf'.step = "planning"]_vars

C34_RecoveredFromUnknownStep ==
  /\ wf.chat = <<>>
  /\ wf.log = <<"planning", "docs">>
  /\ wf.step = "docs"
  /\ wf.status = "active"

\* the kinds a StreamingMonitor m reports, call by call, when it is fed the
\* tokens of text one per analyzeChunk call
RECURSIVE StreamingReplay(_, _)
StreamingReplay(m, text) ==
  IF text = <<>> THEN <<>>
  ELSE LET result == analyzeChunk(m, <<Head(text)>>)
       IN <<result.violationType>>
            \o StreamingReplay(result.monitor, Tail(text))

\* C32: a FastMonitor given the accumulated text after each delta and a
\* StreamingMonitor with the same mode and workflow step given the deltas
\* report in the same calls, and the kinds they report correspond (the
\* i-th FastMonitor kind to the i-th StreamingMonitor kind).
C32_MonitorsAgree ==
  (mon.obj.class = "FastMonitor" /\ mon.resets = 0
     /\ Len(mon.text) = mon.calls) =>
    LET streaming ==
          StreamingReplay(
            NewStreamingMonitor(mon.obj.mode, mon.obj.workflowStep, FALSE),
            mon.text)
    IN \A c \in 1..Len(mon.log) :
         IF mon.log[c] = None THEN streaming[c] = None
         ELSE \E i \in 1..Len(FastKinds) :
                mon.log[c] = FastKinds[i] /\ streaming[c] = StreamingKinds[i]

\* C38: when analyzeChunk calls on one StreamingMonitor overlap,
\* generateCorrection is called at most once for each violation kind: a
\* call that finds a kind whose correction is being generated, or was
\* generated, starts no correction for that kind.
C38_OneCorrectionPerKind ==
  /\ \A i, j \in 1..Len(mon.routerCalls) :
       mon.routerCalls[i] = mon.routerCalls[j] => i = j
  /\ \A kind \in mon.generating :
       \E i \in 1..Len(mon.routerCalls) : mon.routerCalls[i] = kind

C38_SecondCallDuringGeneration ==
  /\ mon.text = <<"fence", "txt", "tool">>
  /\ mon.log = <<"markdown_code_block", None, "codex_cli_tool">>
  /\ mon.generating = {"markdown_code_block", "codex_cli_tool"}
  /\ mon.routerCalls = <<"markdown_code_block", "codex_cli_tool">>

\* C36: in the accumulated response the content of a text delta, tool call,
\* tool result or finish event never lies inside a <think> block: every
\* <think> before it has its </think> before it.
C36_ThinkClosedBeforeContent ==
  \A i \in 1..Len(chunks.fullResponse) :
    chunks.fullResponse[i] \in {"txt", "mcpCall", "mcpResult", "sources"} =>
      Cardinality({j \in 1..i : chunks.fullResponse[j] = "<think>"})
        = Cardinality({j \in 1..i : chunks.fullResponse[j] = "</think>"})

\* C37: once the turn has ended (it returned after normal completion, after
\* an error or after a cancellation) the conversation has no entry in
\* activeStreams.
C37_NoEntryAfterTurn ==
  turn.pc = "done" => activeStreams[ReqChatId] = 0

\* C33: in a turn whose workflow is active and whose prompt the router
\* classified as debugging, a configured debugging model is the selected
\* model and no step fragment is appended; without a debugging model the
\* model is the one of the step's task type (under task-based switching,
\* when that task type has a model; the selected model otherwise) and the
\* fragment of the step is appended.
C33_DebuggingOverride ==
  (/\ call.fn \in {"selected", "streaming"}
   /\ call.chatState[1] = "active" /\ call.chatState[2] # None
   /\ call.routerClassification = "debugging")
    => LET step == call.chatState[2]
           taskType == getTaskTypeForStep(step)
       IN IF call.taskModels.debugging # None
          THEN /\ call.selection.targetModel = "debuggingModel"
               /\ call.selection.systemPromptSuffix = <<>>
          ELSE /\ call.selection.targetModel =
                    (IF /\ call.taskModels.useTaskBasedSwitching
                        /\ taskType \in {"frontend", "backend"}
                        /\ call.taskModels[taskType] # None
                     THEN call.taskModels[taskType] ELSE "selectedModel")
               /\ call.selection.systemPromptSuffix = <<step>>

C33_StepSelectsWithoutDebuggingModel ==
  /\ call.fn = "selected"
  /\ call.chatState = <<"active", "frontend">>
  /\ call.routerClassification = "debugging"
  /\ call.taskModels.debugging = None
  /\ call.selection.targetModel = "frontendModel"
  /\ call.selection.systemPromptSuffix = <<"frontend">>

\* C35: the workflow step the monitor of the turn is constructed with is
\* the step persisted for the conversation when the stream starts, and is
\* the step of the row that selected the system-prompt fragment.
C35_MonitorStepIsCurrent ==
  (call.fn = "streaming" /\ call.monitor # <<>>)
    => /\ call.monitor[1].workflowStep = wf.step
       /\ call.monitor[1].workflowStep = call.chatState[2]

TypeOK ==
  /\ turn.pc \in SuspendedPcs \cup
       {"idle", "exit", "afterCorrection", "contLoop", "afterCont", "final",
        "catch", "done"}
  /\ turn.correctionAttempts \in 0..MAX_CORRECTION_ATTEMPTS

====
